---- MODULE Spec2Model ----
\* Huntarr [Lidarr Edition]: the cycle driver (main_loop), the three passes
\* (process_artists_missing, process_albums_missing, process_album_upgrades)
\* and the checkpoint store (load_state, save_state, check_reset_state) of
\* src/main.py, as a state machine.
EXTENDS Integers, Sequences, FiniteSets, TLC

VARIABLES
    \* configuration, read from the environment at import time (main.py 20-62)
    HUNT_MISSING_ITEMS, HUNT_UPGRADE_ALBUMS, RANDOM_SELECTION, MONITORED_ONLY,
    HUNT_MISSING_MODE, STATE_RESET_INTERVAL_HOURS, SLEEP_DURATION,
    \* the remote service: GET artist, GET album?artistId=, GET wanted/cutoff
    remote_artists, remote_albums, remote_cutoff,
    \* the wall clock (datetime.now()) and the checkpoint file state.json
    now, file,
    \* main_loop: its position and its local `state`
    pc, driver, state,
    \* the running pass: its argument, its locals and its return value
    processed_in, candidates, processed_count, used_indices, newly_processed, ret,
    \* history of the running pass: the remote calls it issued, in order, and
    \* its time.sleep calls, in order
    cmds, waits,
    \* the number of completed cycles of main_loop
    cycle,
    \* history: the pass that is running or has just returned, and the
    \* checkpoint handed to the last save_state
    pass, saved,
    \* history: <<cycle, album id>> of every accepted AlbumSearch of the upgrade
    \* pass since the last reset of the checkpoint
    upgraded,
    \* one call of a pass of missing/album.py or upgrade/album.py, with the
    \* argument of the pass of main.py that has just returned: its position,
    \* its locals, its return value, its remote calls and its time.sleep calls
    m_pc, m_candidates, m_processed_count, m_used_indices, m_newly_processed, m_ret,
    m_cmds, m_waits

cfgvars == <<HUNT_MISSING_ITEMS, HUNT_UPGRADE_ALBUMS, RANDOM_SELECTION, MONITORED_ONLY,
             HUNT_MISSING_MODE, STATE_RESET_INTERVAL_HOURS, SLEEP_DURATION>>
remotevars == <<remote_artists, remote_albums, remote_cutoff>>
passvars == <<processed_in, candidates, processed_count, used_indices, newly_processed, ret, cmds,
              waits, pass>>
modvars == <<m_pc, m_candidates, m_processed_count, m_used_indices, m_newly_processed, m_ret,
             m_cmds, m_waits>>
vars == <<cfgvars, remotevars, now, file, pc, driver, state, passvars, cycle, saved,
          upgraded, modvars>>

----------------------------------------------------------------------------
\* Bounds of the model.
MaxArtists == 2
MaxAlbums == 2
MaxBudget == 2
MaxCycles == 1

ArtistIds == 1..MaxArtists
AlbumIds == 1..MaxAlbums

\* What lidarr_request returns: None (the request failed), a JSON object
\* without "id", a JSON object with "id".
Responses == {"None", "no_id", "id"}

\* the response is not looked at
AcceptedAlways(resp) == TRUE

\* `if resp:` alone, the check for "id" forgotten
AcceptedAnyBody(resp) == resp # "None"

\* `resp and "id" in resp`
Accepted(resp) == resp = "id"

InList(x, s) == \E i \in 1..Len(s) : s[i] = x

\* What state.get("processed_...", []) gives when state.json holds no list
\* there. The ids are positive, so no list of ids is written as one of these.

\* a number, true, false or a str: `x in 5` raises TypeError
JsonScalar == <<-1>>

\* null: the pass is called with None and takes [] for it
None == <<-2>>

\* a JSON object: its keys are strs, so `x in {...}` is False for every id;
\* `{...} + [...]` raises TypeError
JsonObject == <<-3>>

IsList(v) == v \notin {JsonScalar, None, JsonObject}

\* `if processed_... is None: processed_... = []`, the first statement of a
\* missing pass
OrEmpty(processed) == IF processed = None THEN <<>> ELSE processed

Min(S) == CHOOSE x \in S : \A y \in S : x <= y

MinOf(a, b) == IF a <= b THEN a ELSE b

\* what a GET gave: a list, or None
Listing(got) == IF got THEN "list" ELSE "None"

\* an entry of the history of remote calls
Cmd(name, id, idx, resp) == [name |-> name, id |-> id, idx |-> idx, resp |-> resp]

----------------------------------------------------------------------------
\* Configuration.

\* the defaults of the integer settings
DefaultMissingItems == 1
DefaultUpgradeAlbums == 0
DefaultSleepDuration == 900
DefaultResetIntervalHours == 168

\* an environment variable: not set, the text of an integer, or another text
EnvValues == {[kind |-> "unset"], [kind |-> "text"]}
               \cup {[kind |-> "int", value |-> n] : n \in (-1)..MaxBudget}

\* try: int(os.environ.get(NAME, "<default>")) except ValueError: <default>
int_env(raw, default) == IF raw.kind = "int" THEN raw.value ELSE default

----------------------------------------------------------------------------
\* Candidate selection.

\* trackCount >= trackFileCount
IsIncompleteOrEqual(e) == e.trackCount >= e.trackFileCount

\* trackCount > trackFileCount
IsIncomplete(e) == e.trackCount > e.trackFileCount

ArtistCandidate(a) == [artistId |-> a.id, albumId |-> 0]

\* the filter without `a.get("id") not in processed_artists`
KeepArtistAgain(a, processed, monitored_only) ==
    /\ monitored_only => a.monitored
    /\ IsIncomplete(a)

KeepArtist(a, processed, monitored_only) ==
    /\ monitored_only => a.monitored
    /\ IsIncomplete(a)
    /\ ~InList(a.id, processed)

\* the list comprehension incomplete_artists of process_artists_missing
RECURSIVE incomplete_artists(_, _, _)
incomplete_artists(artists, processed, monitored_only) ==
    IF artists = <<>> THEN <<>>
    ELSE (IF KeepArtist(Head(artists), processed, monitored_only)
          THEN <<ArtistCandidate(Head(artists))>> ELSE <<>>)
         \o incomplete_artists(Tail(artists), processed, monitored_only)

AlbumCandidate(artist, alb) == [artistId |-> artist.id, albumId |-> alb.id]

KeepAlbum(alb, processed, monitored_only) ==
    /\ ~InList(alb.id, processed)
    /\ monitored_only => alb.monitored
    /\ IsIncomplete(alb)

\* the inner loop `for alb in albums` of process_albums_missing
RECURSIVE AlbumsOfArtist(_, _, _, _)
AlbumsOfArtist(artist, albums, processed, monitored_only) ==
    IF albums = <<>> THEN <<>>
    ELSE (IF KeepAlbum(Head(albums), processed, monitored_only)
          THEN <<AlbumCandidate(artist, Head(albums))>> ELSE <<>>)
         \o AlbumsOfArtist(artist, Tail(albums), processed, monitored_only)

\* the artists whose albums process_albums_missing asks for
QueriedArtist(artist, monitored_only) == ~(monitored_only /\ ~artist.monitored)

\* the outer loop `for artist in artists`; albums_of[id] is what
\* `get_albums_for_artist(id) or []` gave
RECURSIVE incomplete_albums(_, _, _, _)
incomplete_albums(artists, albums_of, processed, monitored_only) ==
    IF artists = <<>> THEN <<>>
    ELSE (IF QueriedArtist(Head(artists), monitored_only)
          THEN AlbumsOfArtist(Head(artists), albums_of[Head(artists).id],
                              processed, monitored_only)
          ELSE <<>>)
         \o incomplete_albums(Tail(artists), albums_of, processed, monitored_only)

\* the positions in artists of those whose albums the inner loop goes through
WithAlbums(artists, albums_of, monitored_only) ==
    {i \in 1..Len(artists) :
       QueriedArtist(artists[i], monitored_only) /\ albums_of[artists[i].id] # <<>>}

\* the GET album?artistId= calls of the outer loop, in order
RECURSIVE AlbumQueries(_, _, _)
AlbumQueries(artists, failed, monitored_only) ==
    IF artists = <<>> THEN <<>>
    ELSE (IF QueriedArtist(Head(artists), monitored_only)
          THEN <<Cmd("GetAlbums", Head(artists).id, -1, Listing(Head(artists).id \notin failed))>>
          ELSE <<>>)
         \o AlbumQueries(Tail(artists), failed, monitored_only)

UpgradeCandidate(album) == [artistId |-> album.artist.id, albumId |-> album.id]

\* `if not album_id or not artist_id: continue`, then the monitored check;
\* an id that is absent (None) or 0 is modelled as 0
KeepUpgrade(album, monitored_only) ==
    /\ ~(album.id = 0 \/ album.artist.id = 0)
    /\ ~(monitored_only /\ ~album.monitored)

\* the loop `for album in cutoff_albums` of process_album_upgrades
RECURSIVE upgrade_candidates(_, _)
upgrade_candidates(cutoff_albums, monitored_only) ==
    IF cutoff_albums = <<>> THEN <<>>
    ELSE (IF KeepUpgrade(Head(cutoff_albums), monitored_only)
          THEN <<UpgradeCandidate(Head(cutoff_albums))>> ELSE <<>>)
         \o upgrade_candidates(Tail(cutoff_albums), monitored_only)

\* random.randint without the `if idx not in used_indices` retry
NextIndicesAny(n, used, random) ==
    IF random /\ n > 1
    THEN 0..(n - 1)
    ELSE LET idx_candidates == {i \in 0..(n - 1) : i \notin used}
         IN  IF idx_candidates = {} THEN {} ELSE {Min(idx_candidates)}

\* random.randint until an unused index, whatever RANDOM_SELECTION says
NextIndicesRandom(n, used, random) == {i \in 0..(n - 1) : i \notin used}

\* The index of the next candidate: random.randint until an unused index in
\* random mode, the lowest unused index otherwise (Python indices, from 0).
NextIndices(n, used, random) ==
    IF random /\ n > 1
    THEN {i \in 0..(n - 1) : i \notin used}
    ELSE LET idx_candidates == {i \in 0..(n - 1) : i \notin used}
         IN  IF idx_candidates = {} THEN {} ELSE {Min(idx_candidates)}

\* `if not idx_candidates: break`, of the sequential branch only: the random
\* branch draws until it finds an unused index
NoIndexLeft(n, used, random) ==
    /\ ~(random /\ n > 1)
    /\ {i \in 0..(n - 1) : i \notin used} = {}

----------------------------------------------------------------------------
\* The checkpoint store.

\* state[key] = value
SetKey(d, key, value) ==
    [k \in DOMAIN d \cup {key} |-> IF k = key THEN value ELSE d[k]]

MicrosPerSecond == 1000000
SecondsPerHour == 3600

\* a datetime: whole seconds since an epoch, and the microsecond field
DateTime(sec, usec) == [type |-> "datetime", sec |-> sec, usec |-> usec]

\* a datetime with a tzinfo, as datetime.fromisoformat() makes of a text with
\* a UTC offset
AwareDateTime(sec, usec) == [type |-> "aware_datetime", sec |-> sec, usec |-> usec]

\* a str. text is the instant it names, to the second <<sec>> or to the
\* microsecond <<sec, usec>>, and <<>> when it names none. form is its
\* spelling: "isoformat" is YYYY-MM-DDTHH:MM:SS[.ffffff], what
\* datetime.isoformat() writes; "iso" is another spelling fromisoformat()
\* reads as the same datetime (the date alone, no seconds, a space for the T);
\* "offset" is a spelling with a UTC offset (+00:00)
StrAs(text, form) == [type |-> "str", text |-> text, form |-> form]

Str(text) == StrAs(text, "isoformat")

\* what state.json holds for last_reset_time when it is no str: a number or
\* null, neither str nor datetime
NotStr == [type |-> "number"]

\* state.json holding a JSON str or list and no object; mentions tells whether
\* `"last_reset_time" in` it is true
JsonText(mentions) == [json |-> "str", mentions_key |-> mentions]

\* the value is a dict
IsDict(v) == "json" \notin DOMAIN v

ValueError == [type |-> "ValueError"]

TypeError == [type |-> "TypeError"]

\* isoformat(timespec = "seconds"): the fraction is never written
isoformatSeconds(dt) == Str(<<dt.sec>>)

\* datetime.isoformat(): the fraction is written only when microsecond # 0
isoformat(dt) == Str(IF dt.usec = 0 THEN <<dt.sec>> ELSE <<dt.sec, dt.usec>>)

\* datetime.fromisoformat()
fromisoformat(s) ==
    LET sec == s.text[1]
        usec == IF Len(s.text) = 2 THEN s.text[2] ELSE 0
    IN  IF Len(s.text) = 1 \/ (Len(s.text) = 2 /\ s.text[2] \in 0..(MicrosPerSecond - 1))
        THEN (IF s.form = "offset" THEN AwareDateTime(sec, usec) ELSE DateTime(sec, usec))
        ELSE ValueError

\* a - b >= timedelta(hours = hours)
ElapsedReaches(a, b, hours) ==
    LET d == (a.sec - b.sec) - hours * SecondsPerHour
    IN  d > 0 \/ (d = 0 /\ a.usec >= b.usec)

\* a - b > timedelta(hours = hours), for datetimes a and b
ElapsedExceeds(a, b, hours) ==
    LET d == (a.sec - b.sec) - hours * SecondsPerHour
    IN  d > 0 \/ (d = 0 /\ a.usec > b.usec)

\* the dict load_state makes when the file is missing or unreadable
FreshState(t) ==
    [processed_artists |-> <<>>, processed_albums |-> <<>>,
     last_reset_time |-> isoformat(t)]

\* load_state(): f is the file, t is datetime.now(). A str or list that
\* mentions the key is returned as it is; in one that does not,
\* `state["last_reset_time"] = ...` raises TypeError, which is caught.
load_state(f, t) ==
    IF f.kind = "missing" THEN FreshState(t)
    ELSE IF f.kind = "not_json" THEN FreshState(t)
    ELSE IF ~IsDict(f.value)
         THEN (IF f.value.mentions_key THEN f.value ELSE FreshState(t))
    ELSE IF "last_reset_time" \notin DOMAIN f.value
         THEN SetKey(f.value, "last_reset_time", isoformat(t))
         ELSE f.value

\* what save_state makes of `state` before it opens the file
Serialised(st) ==
    IF IsDict(st) /\ st.last_reset_time.type = "datetime"
    THEN [st EXCEPT !.last_reset_time = isoformat(@)]
    ELSE st

\* check_reset_state(state): t is datetime.now(). `state["last_reset_time"]`
\* raises TypeError when state is no dict, and `now - last_reset` when
\* last_reset is no datetime or has a tzinfo: now has none.
check_reset_state(st, t, hours) ==
    IF hours <= 0 THEN st
    ELSE IF ~IsDict(st) THEN TypeError
    ELSE LET lrt == st.last_reset_time
             parsed == IF lrt.type = "str" THEN fromisoformat(lrt) ELSE lrt
             last_reset == IF parsed = ValueError THEN t ELSE parsed
         IN  IF last_reset.type # "datetime" THEN TypeError
             ELSE IF ElapsedExceeds(t, last_reset, hours)
             THEN SetKey(SetKey(SetKey(st, "processed_artists", <<>>),
                                "processed_albums", <<>>),
                         "last_reset_time", t)
             ELSE st

----------------------------------------------------------------------------
\* `elif HUNT_MISSING_MODE in ["album", "both"]`: no album pass after an
\* artist pass
AfterElif(nextpc) ==
    IF driver = "main_loop"
    THEN (IF nextpc = "album_call" THEN "upgrade_call" ELSE nextpc)
    ELSE "done"

\* Returning from a pass: to main_loop, or to the caller of a single pass.
After(nextpc) == IF driver = "main_loop" THEN nextpc ELSE "done"

\* state.get(key, [])
GetList(d, key) == IF key \in DOMAIN d THEN d[key] ELSE <<>>

\* main_loop without `state[key] = processed`
StoreProcessedNever(d, key, processed) == d

\* `state[key] = processed[-1:]`: the newest id only
StoreProcessedLast(d, key, processed) ==
    IF driver = "main_loop" /\ processed # <<>>
    THEN SetKey(d, key, <<processed[Len(processed)]>>) ELSE d

\* one list for both kinds: `state["processed_artists"] = processed` and
\* `state["processed_albums"] = processed`
StoreProcessedShared(d, key, processed) ==
    IF driver = "main_loop" /\ processed # <<>>
    THEN SetKey(SetKey(d, "processed_artists", processed), "processed_albums", processed)
    ELSE d

\* main_loop: `if processed: state[key] = processed`
StoreProcessed(d, key, processed) ==
    IF driver = "main_loop" /\ processed # <<>> THEN SetKey(d, key, processed) ELSE d

\* the locals of a pass at the top of its while loop
FreshLocals ==
    /\ processed_count' = 0
    /\ used_indices' = {}
    /\ newly_processed' = <<>>

\* `return result` of a missing pass; main_loop stores a non-empty result
ReturnList(result, key, nextpc) ==
    /\ ret' = result
    /\ pc' = After(nextpc)
    /\ state' = StoreProcessed(state, key, result)

\* `return processed_... + newly_processed` at the end of a missing pass: the
\* sum of a dict and a list raises TypeError, caught nowhere in main_loop
ReturnSum(key, nextpc) ==
    IF processed_in = JsonObject
    THEN /\ pc' = "crashed"
         /\ UNCHANGED <<ret, state>>
    ELSE ReturnList(processed_in \o newly_processed, key, nextpc)

\* `if HUNT_..._ITEMS < 0: return`
BudgetSkipsNegative(budget) == budget < 0

\* every attempt counted, a failed refresh included
LoopExitCountingAttempts(count, budget, used, n) ==
    Cardinality(used) >= budget \/ Cardinality(used) >= n

\* `processed_count > budget`, one candidate too many
LoopExitLate(count, budget, used, n) == count > budget \/ Cardinality(used) >= n

\* the while loop without `if len(used_indices) >= len(...): break`
LoopExitBudgetOnly(count, budget, used, n) == count >= budget

\* `if HUNT_..._ITEMS <= 0: return`, the first statement of every pass
BudgetSkips(budget) == budget <= 0

\* the two breaks at the top of the while loop of every pass
LoopExit(count, budget, used, n) == count >= budget \/ Cardinality(used) >= n

----------------------------------------------------------------------------
\* process_artists_missing

\* Entry: the budget check, GET artist, the filter.
ArtistStart ==
    /\ pc = "artist_pass"
    /\ pass' = "artist"
    /\ FreshLocals
    /\ processed_in' = OrEmpty(processed_in)
    /\ IF BudgetSkips(HUNT_MISSING_ITEMS)
       THEN /\ cmds' = <<>>
            /\ waits' = <<>>
            /\ candidates' = <<>>
            /\ ReturnList(processed_in', "processed_artists", "album_call")
       ELSE \E got \in BOOLEAN :
            LET artists == IF got THEN remote_artists ELSE <<>>
                incomplete == incomplete_artists(artists, processed_in', MONITORED_ONLY)
            IN  /\ cmds' = <<Cmd("GetArtists", 0, -1, Listing(got))>>
                /\ waits' = IF artists = <<>> THEN <<"sleep(60)">> ELSE <<>>
                /\ IF processed_in = JsonScalar /\ incomplete # <<>>
                   THEN \* `a.get("id") not in processed_artists` raises
                        \* TypeError at the first artist that comes to it
                        /\ candidates' = <<>>
                        /\ pc' = "crashed"
                        /\ UNCHANGED <<ret, state>>
                   ELSE /\ candidates' = incomplete
                        /\ IF incomplete = <<>>
                           THEN ReturnList(processed_in', "processed_artists", "album_call")
                           ELSE /\ pc' = "artist_loop"
                                /\ UNCHANGED <<ret, state>>
    /\ UNCHANGED <<modvars, cfgvars, remotevars, now, file, driver, cycle, upgraded, saved>>

\* The two break conditions at the top of the while loop, then the return.
ArtistReturn ==
    /\ pc = "artist_loop"
    /\ \/ LoopExit(processed_count, HUNT_MISSING_ITEMS, used_indices, Len(candidates))
       \/ NoIndexLeft(Len(candidates), used_indices, RANDOM_SELECTION)
    /\ ReturnSum("processed_artists", "album_call")
    /\ UNCHANGED <<modvars, cfgvars, remotevars, now, file, driver, cycle, upgraded, saved, processed_in,
                   candidates, processed_count, used_indices, newly_processed, cmds, waits,
                   pass>>

\* One iteration: select, RefreshArtist, MissingAlbumSearch, fallback AlbumSearch.
ArtistIter ==
    /\ pc = "artist_loop"
    /\ ~LoopExit(processed_count, HUNT_MISSING_ITEMS, used_indices, Len(candidates))
    /\ \E idx \in NextIndices(Len(candidates), used_indices, RANDOM_SELECTION) :
       \E refresh_resp \in Responses, search_resp \in Responses, fallback_resp \in Responses :
        LET artist_id == candidates[idx + 1].artistId
            refresh == Cmd("RefreshArtist", artist_id, idx, refresh_resp)
            search == Cmd("MissingAlbumSearch", artist_id, idx, search_resp)
            fallback == Cmd("AlbumSearchByArtist", artist_id, idx, fallback_resp)
        IN  /\ used_indices' = used_indices \cup {idx}
            /\ IF ~Accepted(refresh_resp)
               THEN /\ cmds' = cmds \o <<refresh>>
                    /\ waits' = Append(waits, "sleep(10)")
                    /\ UNCHANGED <<processed_count, newly_processed>>
               ELSE /\ processed_count' = processed_count + 1
                    /\ waits' = Append(waits, "sleep(5)")
                    /\ IF Accepted(search_resp)
                       THEN /\ cmds' = cmds \o <<refresh, search>>
                            /\ newly_processed' = Append(newly_processed, artist_id)
                       ELSE /\ cmds' = cmds \o <<refresh, search, fallback>>
                            /\ newly_processed' =
                                 IF Accepted(fallback_resp)
                                 THEN Append(newly_processed, artist_id)
                                 ELSE newly_processed
    /\ UNCHANGED <<modvars, cfgvars, remotevars, now, file, driver, cycle, upgraded, saved, pc, state,
                   processed_in, candidates, ret, pass>>

----------------------------------------------------------------------------
\* process_albums_missing

\* Entry: the budget check, GET artist, GET album per artist, the filter.
AlbumStart ==
    /\ pc = "album_pass"
    /\ pass' = "album"
    /\ FreshLocals
    /\ waits' = <<>>
    /\ processed_in' = OrEmpty(processed_in)
    /\ IF BudgetSkips(HUNT_MISSING_ITEMS)
       THEN /\ cmds' = <<>>
            /\ candidates' = <<>>
            /\ ReturnList(processed_in', "processed_albums", "upgrade_call")
       ELSE \E got \in BOOLEAN :
            LET artists == IF got THEN remote_artists ELSE <<>>
            IN  \E failed \in SUBSET {artists[i].id : i \in 1..Len(artists)} :
                LET albums_of == [a \in ArtistIds |->
                                    IF a \in failed THEN <<>> ELSE remote_albums[a]]
                    incomplete == incomplete_albums(artists, albums_of, processed_in',
                                                    MONITORED_ONLY)
                    with_albums == WithAlbums(artists, albums_of, MONITORED_ONLY)
                IN  IF processed_in = JsonScalar /\ with_albums # {}
                    THEN \* `album_id in processed_albums` raises TypeError at
                         \* the first album of the first artist that has one
                         /\ cmds' = <<Cmd("GetArtists", 0, -1, Listing(got))>>
                                      \o AlbumQueries(SubSeq(artists, 1, Min(with_albums)),
                                                      failed, MONITORED_ONLY)
                         /\ candidates' = <<>>
                         /\ pc' = "crashed"
                         /\ UNCHANGED <<ret, state>>
                    ELSE /\ cmds' = <<Cmd("GetArtists", 0, -1, Listing(got))>>
                                      \o AlbumQueries(artists, failed, MONITORED_ONLY)
                         /\ candidates' = incomplete
                         /\ IF incomplete = <<>>
                            THEN ReturnList(processed_in', "processed_albums", "upgrade_call")
                            ELSE /\ pc' = "album_loop"
                                 /\ UNCHANGED <<ret, state>>
    /\ UNCHANGED <<modvars, cfgvars, remotevars, now, file, driver, cycle, upgraded, saved>>

AlbumReturn ==
    /\ pc = "album_loop"
    /\ \/ LoopExit(processed_count, HUNT_MISSING_ITEMS, used_indices, Len(candidates))
       \/ NoIndexLeft(Len(candidates), used_indices, RANDOM_SELECTION)
    /\ ReturnSum("processed_albums", "upgrade_call")
    /\ UNCHANGED <<modvars, cfgvars, remotevars, now, file, driver, cycle, upgraded, saved, processed_in,
                   candidates, processed_count, used_indices, newly_processed, cmds, waits,
                   pass>>

\* One iteration: select, RefreshArtist, AlbumSearch.
AlbumIter ==
    /\ pc = "album_loop"
    /\ ~LoopExit(processed_count, HUNT_MISSING_ITEMS, used_indices, Len(candidates))
    /\ \E idx \in NextIndices(Len(candidates), used_indices, RANDOM_SELECTION) :
       \E refresh_resp \in Responses, search_resp \in Responses :
        LET album_obj == candidates[idx + 1]
            refresh == Cmd("RefreshArtist", album_obj.artistId, idx, refresh_resp)
            search == Cmd("AlbumSearch", album_obj.albumId, idx, search_resp)
        IN  /\ used_indices' = used_indices \cup {idx}
            /\ IF ~Accepted(refresh_resp)
               THEN /\ cmds' = cmds \o <<refresh>>
                    /\ waits' = Append(waits, "sleep(10)")
                    /\ UNCHANGED <<processed_count, newly_processed>>
               ELSE /\ processed_count' = processed_count + 1
                    /\ waits' = Append(waits, "sleep(5)")
                    /\ cmds' = cmds \o <<refresh, search>>
                    /\ newly_processed' =
                         IF Accepted(search_resp)
                         THEN Append(newly_processed, album_obj.albumId)
                         ELSE newly_processed
    /\ UNCHANGED <<modvars, cfgvars, remotevars, now, file, driver, cycle, upgraded, saved, pc, state,
                   processed_in, candidates, ret, pass>>

----------------------------------------------------------------------------
\* process_album_upgrades

\* `return True` whatever was processed
ReturnBoolAlways(result) ==
    /\ ret' = <<TRUE>>
    /\ pc' = After("save")
    /\ UNCHANGED state

\* `return <bool>`, kept as the one element of ret; main_loop only sets
\* processing_done
ReturnBool(result) ==
    /\ ret' = <<result>>
    /\ pc' = After("save")
    /\ UNCHANGED state

\* Entry: the budget check, GET wanted/cutoff, the candidate list.
UpgradeStart ==
    /\ pc = "upgrade_pass"
    /\ pass' = "upgrade"
    /\ FreshLocals
    /\ waits' = <<>>
    /\ IF BudgetSkips(HUNT_UPGRADE_ALBUMS)
       THEN /\ cmds' = <<>>
            /\ candidates' = <<>>
            /\ ReturnBool(FALSE)
       ELSE \E got \in BOOLEAN :
            LET cutoff_albums == IF got THEN remote_cutoff ELSE <<>>
                cands == upgrade_candidates(cutoff_albums, MONITORED_ONLY)
            IN  /\ cmds' = <<Cmd("GetCutoff", 0, -1, Listing(got))>>
                /\ candidates' = cands
                /\ IF cands = <<>>
                   THEN ReturnBool(FALSE)
                   ELSE /\ pc' = "upgrade_loop"
                        /\ UNCHANGED <<ret, state>>
    /\ UNCHANGED <<modvars, cfgvars, remotevars, now, file, driver, cycle, upgraded, saved, processed_in>>

UpgradeReturn ==
    /\ pc = "upgrade_loop"
    /\ \/ LoopExit(processed_count, HUNT_UPGRADE_ALBUMS, used_indices, Len(candidates))
       \/ NoIndexLeft(Len(candidates), used_indices, RANDOM_SELECTION)
    /\ ReturnBool(processed_count > 0)
    /\ UNCHANGED <<modvars, cfgvars, remotevars, now, file, driver, cycle, upgraded, saved, processed_in,
                   candidates, processed_count, used_indices, newly_processed, cmds, waits,
                   pass>>

\* One iteration: select, RefreshArtist, AlbumSearch; only an accepted
\* AlbumSearch counts.
UpgradeIter ==
    /\ pc = "upgrade_loop"
    /\ ~LoopExit(processed_count, HUNT_UPGRADE_ALBUMS, used_indices, Len(candidates))
    /\ \E idx \in NextIndices(Len(candidates), used_indices, RANDOM_SELECTION) :
       \E ref_resp \in Responses, srch_resp \in Responses :
        LET album_obj == candidates[idx + 1]
            refresh == Cmd("RefreshArtist", album_obj.artistId, idx, ref_resp)
            search == Cmd("AlbumSearch", album_obj.albumId, idx, srch_resp)
        IN  /\ used_indices' = used_indices \cup {idx}
            /\ IF ~Accepted(ref_resp)
               THEN /\ cmds' = cmds \o <<refresh>>
                    /\ waits' = Append(waits, "sleep(10)")
                    /\ UNCHANGED <<processed_count, upgraded>>
               ELSE /\ cmds' = cmds \o <<refresh, search>>
                    /\ waits' = IF Accepted(srch_resp)
                                THEN Append(waits, "sleep(5)")
                                ELSE waits \o <<"sleep(5)", "sleep(10)">>
                    /\ processed_count' =
                         IF Accepted(srch_resp) THEN processed_count + 1
                         ELSE processed_count
                    /\ upgraded' =
                         IF Accepted(srch_resp)
                         THEN upgraded \cup {<<cycle, album_obj.albumId>>}
                         ELSE upgraded
    /\ UNCHANGED <<modvars, cfgvars, remotevars, now, file, driver, cycle, saved, pc, state,
                   processed_in, candidates, newly_processed, ret, pass>>

----------------------------------------------------------------------------
\* main_loop

NotSaved == [written |-> FALSE]

\* the locals and the result of a pass that has returned are out of scope
DropLocals ==
    /\ candidates' = <<>>
    /\ processed_count' = 0
    /\ used_indices' = {}
    /\ newly_processed' = <<>>
    /\ ret' = <<>>
    /\ cmds' = <<>>
    /\ waits' = <<>>
    /\ pass' = "none"

\* state = load_state()
Load ==
    /\ pc = "load"
    /\ state' = load_state(file, now)
    /\ pc' = "reset"
    /\ UNCHANGED <<modvars, cfgvars, remotevars, now, file, driver, cycle, upgraded, passvars, saved>>

\* state = check_reset_state(state)
\* a TypeError of check_reset_state is caught nowhere in main_loop: the
\* process logs it and exits
CheckReset ==
    /\ pc = "reset"
    /\ LET result == check_reset_state(state, now, STATE_RESET_INTERVAL_HOURS)
       IN  IF result = TypeError
           THEN /\ pc' = "crashed"
                /\ UNCHANGED state
           ELSE /\ pc' = "artist_call"
                /\ state' = result
    /\ saved' = NotSaved
    /\ upgraded' = IF state' # state THEN {} ELSE upgraded
    /\ UNCHANGED <<modvars, cfgvars, remotevars, now, file, driver, cycle, passvars>>

\* if HUNT_MISSING_MODE in ["artist", "both"]: process_artists_missing(...)
CallArtist ==
    /\ pc = "artist_call"
    /\ IF HUNT_MISSING_MODE \in {"artist", "both"}
       THEN IF IsDict(state)
            THEN /\ processed_in' = GetList(state, "processed_artists")
                 /\ pc' = "artist_pass"
            ELSE \* `state.get` raises AttributeError
                 /\ processed_in' = <<>>
                 /\ pc' = "crashed"
       ELSE /\ pc' = "album_call"
            /\ processed_in' = <<>>
    /\ DropLocals
    /\ UNCHANGED <<modvars, cfgvars, remotevars, now, file, driver, cycle, upgraded, saved, state>>

\* if HUNT_MISSING_MODE in ["album", "both"]: process_albums_missing(...)
CallAlbum ==
    /\ pc = "album_call"
    /\ IF HUNT_MISSING_MODE \in {"album", "both"}
       THEN IF IsDict(state)
            THEN /\ processed_in' = GetList(state, "processed_albums")
                 /\ pc' = "album_pass"
            ELSE \* `state.get` raises AttributeError
                 /\ processed_in' = <<>>
                 /\ pc' = "crashed"
       ELSE /\ pc' = "upgrade_call"
            /\ processed_in' = <<>>
    /\ DropLocals
    /\ UNCHANGED <<modvars, cfgvars, remotevars, now, file, driver, cycle, upgraded, saved, state>>

\* if process_album_upgrades(): ...
CallUpgrade ==
    /\ pc = "upgrade_call"
    /\ pc' = "upgrade_pass"
    /\ processed_in' = <<>>
    /\ DropLocals
    /\ UNCHANGED <<modvars, cfgvars, remotevars, now, file, driver, cycle, upgraded, saved, state>>

\* what open(STATE_FILE_PATH, 'w') and json.dump come to: the file is
\* written; open() fails and the file is as it was; open() has truncated the
\* file and the write fails
SaveOutcomes == {"written", "open_failed", "write_failed"}

FileAfterSave(outcome, st) ==
    CASE outcome = "written" -> [kind |-> "json", value |-> Serialised(st)]
      [] outcome = "open_failed" -> file
      [] outcome = "write_failed" -> [kind |-> "not_json"]

\* save_state(state): the write succeeds, or open() or the write fails and
\* the error is logged; `state["last_reset_time"]` of a state that is no dict
\* raises TypeError before open(), which is logged as well
Save ==
    /\ pc = "save"
    /\ IF IsDict(state)
       THEN /\ state' = Serialised(state)
            /\ \E outcome \in SaveOutcomes :
                 /\ file' = FileAfterSave(outcome, state)
                 /\ saved' = IF outcome = "written"
                             THEN [written |-> TRUE, state |-> state]
                             ELSE NotSaved
       ELSE /\ saved' = NotSaved
            /\ UNCHANGED <<state, file>>
    /\ pc' = "sleep"
    /\ processed_in' = <<>>
    /\ DropLocals
    /\ UNCHANGED <<modvars, cfgvars, remotevars, now, driver, cycle, upgraded>>

\* the time the passes of a cycle take, in seconds: their requests and waits
Delays == {0, 3600}

\* time.sleep(SLEEP_DURATION), then the next cycle; time.sleep raises
\* ValueError for a negative length, which is caught nowhere in main_loop
Sleep ==
    /\ pc = "sleep"
    /\ IF SLEEP_DURATION < 0
       THEN /\ pc' = "crashed"
            /\ UNCHANGED <<now, cycle>>
       ELSE /\ cycle < MaxCycles
            /\ \E d \in Delays : now' = DateTime(now.sec + SLEEP_DURATION + d, now.usec)
            /\ cycle' = cycle + 1
            /\ pc' = "load"
    /\ UNCHANGED <<modvars, cfgvars, remotevars, file, driver, state, passvars, saved, upgraded>>

----------------------------------------------------------------------------
\* Inputs.

Budgets == (-1)..MaxBudget

\* monitored and statistics of an artist or an album
EntityFlags == {[monitored |-> m, trackCount |-> tc, trackFileCount |-> 1] :
                  m \in BOOLEAN, tc \in {1, 2}}

Entity(id, fl) == [id |-> id, monitored |-> fl.monitored,
                   trackCount |-> fl.trackCount, trackFileCount |-> fl.trackFileCount]

\* the answers to GET artist: artists 1..n, in any condition
ArtistLists ==
    UNION {{[i \in 1..n |-> Entity(i, f[i])] : f \in [1..n -> EntityFlags]} :
             n \in 0..MaxArtists}

\* the answers to GET artist that give an artist twice
RepeatArtistLists ==
    {<<Entity(k, fl), Entity(k, fl)>> : k \in ArtistIds, fl \in EntityFlags}

\* the artist an album belongs to: two albums per artist
OwnerOf(album_id) == MinOf(((album_id - 1) \div 2) + 1, MaxArtists)

RECURSIVE SeqOfSet(_)
SeqOfSet(S) == IF S = {} THEN <<>> ELSE <<Min(S)>> \o SeqOfSet(S \ {Min(S)})

\* the answers to GET album?artistId=: every album, in any condition
AlbumMaps ==
    {[a \in ArtistIds |->
        LET mine == SeqOfSet({k \in AlbumIds : OwnerOf(k) = a})
        IN  [i \in 1..Len(mine) |-> Entity(mine[i], f[mine[i]])]] :
       f \in [AlbumIds -> EntityFlags]}

\* the answers to GET album?artistId= that give an album twice: twice for
\* artist 1, or once for every artist
RepeatAlbumMaps ==
    {[a \in ArtistIds |-> IF a = 1 THEN <<Entity(k, fl), Entity(k, fl)>> ELSE <<>>] :
       k \in AlbumIds, fl \in EntityFlags}
    \cup {[a \in ArtistIds |-> <<Entity(k, fl)>>] : k \in AlbumIds, fl \in EntityFlags}

\* a record of GET wanted/cutoff, with the artist of the album and the
\* monitored flags of both; an id the record lacks is 0
CutoffRecord(k, has_id, has_artist, m, am) ==
    [id |-> IF has_id THEN k ELSE 0, monitored |-> m,
     artist |-> [id |-> IF has_artist THEN OwnerOf(k) ELSE 0, monitored |-> am]]

CutoffLists ==
    UNION {{[i \in 1..n |-> CutoffRecord(i, f[i][1], f[i][2], f[i][3], am[OwnerOf(i)])] :
              f \in [1..n -> BOOLEAN \X BOOLEAN \X BOOLEAN],
              am \in [{OwnerOf(k) : k \in 1..n} -> BOOLEAN]} :
             n \in 0..MaxAlbums}

RECURSIVE Descending(_)
Descending(n) == IF n = 0 THEN <<>> ELSE <<n>> \o Descending(n - 1)

\* what a pass is called with: a processed list, or None, its default
ProcessedLists(n) == {<<>>, Descending(n), None} \cup {<<k>> : k \in 1..n}

StartTime == DateTime(0, 0)

\* SLEEP_DURATION: int() takes every integer, a negative one too
SleepDurations == {-1, 3600}

NoRemote ==
    /\ remote_artists = <<>>
    /\ remote_albums = [a \in ArtistIds |-> <<>>]
    /\ remote_cutoff = <<>>

\* no pass of missing/album.py or upgrade/album.py has been called
ModIdle ==
    /\ m_pc = "idle"
    /\ m_candidates = <<>>
    /\ m_processed_count = 0
    /\ m_used_indices = {}
    /\ m_newly_processed = <<>>
    /\ m_ret = <<>>
    /\ m_cmds = <<>>
    /\ m_waits = <<>>

IdleLocals ==
    /\ candidates = <<>>
    /\ processed_count = 0
    /\ used_indices = {}
    /\ newly_processed = <<>>
    /\ ret = <<>>
    /\ cmds = <<>>
    /\ waits = <<>>
    /\ pass = "none"
    /\ saved = NotSaved
    /\ upgraded = {}
    /\ ModIdle

----------------------------------------------------------------------------
\* One call of one pass, for every configuration, remote answer and argument.

InitArtistPass ==
    /\ pc = "artist_pass"
    /\ HUNT_MISSING_ITEMS \in Budgets
    /\ HUNT_UPGRADE_ALBUMS = 0
    /\ remote_artists \in ArtistLists
    /\ remote_albums = [a \in ArtistIds |-> <<>>]
    /\ remote_cutoff = <<>>
    /\ processed_in \in ProcessedLists(MaxArtists)

InitAlbumPass ==
    /\ pc = "album_pass"
    /\ HUNT_MISSING_ITEMS \in Budgets
    /\ HUNT_UPGRADE_ALBUMS = 0
    /\ remote_artists \in ArtistLists
    /\ \A i \in 1..Len(remote_artists) : remote_artists[i].trackCount = 1
    /\ remote_albums \in AlbumMaps
    /\ remote_cutoff = <<>>
    /\ processed_in \in ProcessedLists(MaxAlbums)

InitUpgradePass ==
    /\ pc = "upgrade_pass"
    /\ HUNT_MISSING_ITEMS = 0
    /\ HUNT_UPGRADE_ALBUMS \in Budgets
    /\ remote_artists = <<>>
    /\ remote_albums = [a \in ArtistIds |-> <<>>]
    /\ remote_cutoff \in CutoffLists
    /\ processed_in = <<>>

InitPass ==
    /\ driver = "call"
    /\ RANDOM_SELECTION \in BOOLEAN
    /\ MONITORED_ONLY \in BOOLEAN
    /\ HUNT_MISSING_MODE = "artist"
    /\ STATE_RESET_INTERVAL_HOURS = 0
    /\ SLEEP_DURATION \in SleepDurations
    /\ now = StartTime
    /\ file = [kind |-> "missing"]
    /\ state = FreshState(StartTime)
    /\ cycle = 0
    /\ IdleLocals
    /\ InitArtistPass \/ InitAlbumPass \/ InitUpgradePass

NextPass ==
    \/ ArtistStart \/ ArtistIter \/ ArtistReturn
    \/ AlbumStart \/ AlbumIter \/ AlbumReturn
    \/ UpgradeStart \/ UpgradeIter \/ UpgradeReturn

SpecPass == InitPass /\ [][NextPass]_vars

----------------------------------------------------------------------------
\* The passes of missing/album.py and upgrade/album.py, each called with the
\* argument of the pass of main.py that has just returned, under the same
\* configuration and against the same remote service. Their api module
\* (refresh_artist, album_search, get_artists_json, get_albums_for_artist)
\* issues the remote calls main.py issues under the same names.

\* the variables of main.py
mainvars == <<cfgvars, remotevars, now, file, pc, driver, state, passvars, cycle, saved,
              upgraded>>

\* the indices the passes selected, in order: an iteration issues one
\* RefreshArtist, first
RECURSIVE Selections(_)
Selections(log) ==
    IF log = <<>> THEN <<>>
    ELSE (IF Head(log).name = "RefreshArtist" THEN <<Head(log).idx>> ELSE <<>>)
         \o Selections(Tail(log))

\* the remote service answers a request of log as it answered the same request
\* of main.py
SameAnswers(log) ==
    \A k \in 1..Len(log) : \A j \in 1..Len(cmds) :
        (log[k].name = cmds[j].name /\ log[k].id = cmds[j].id /\ log[k].idx = cmds[j].idx)
            => log[k].resp = cmds[j].resp

\* random.randint gives the pass what it gave main.py: the same index at the
\* same selection
SameChoices(log) ==
    \A j \in 1..MinOf(Len(Selections(log)), Len(Selections(cmds))) :
        Selections(log)[j] = Selections(cmds)[j]

Replays(log) == SameAnswers(log) /\ SameChoices(log)

\* `return ...` of a pass of missing/album.py or upgrade/album.py
ModReturn(result) ==
    /\ m_ret' = result
    /\ m_pc' = "done"

\* time.sleep(SLEEP_DURATION) at the end of an iteration: it raises ValueError
\* for a negative length, which the pass does not catch, and the loop goes on
\* otherwise
ModSleep ==
    m_pc' = IF SLEEP_DURATION < 0 THEN "raised" ELSE m_pc

ModFreshLocals ==
    /\ m_processed_count' = 0
    /\ m_used_indices' = {}
    /\ m_newly_processed' = <<>>

\* missing/album.py, process_albums_missing. Entry: the budget check, GET
\* artist, GET album per artist, the filter.
ModAlbumStart ==
    /\ pc = "done"
    /\ pass = "album"
    /\ m_pc = "idle"
    /\ ModFreshLocals
    /\ IF BudgetSkips(HUNT_MISSING_ITEMS)
       THEN /\ m_cmds' = <<>>
            /\ m_waits' = <<>>
            /\ m_candidates' = <<>>
            /\ ModReturn(OrEmpty(processed_in))
       ELSE \E got \in BOOLEAN :
            LET artists == IF got THEN remote_artists ELSE <<>>
            IN  IF artists = <<>>
                THEN /\ m_cmds' = <<Cmd("GetArtists", 0, -1, Listing(got))>>
                     /\ m_waits' = <<"sleep(60)">>
                     /\ m_candidates' = <<>>
                     /\ ModReturn(OrEmpty(processed_in))
                ELSE \E failed \in SUBSET {artists[i].id : i \in 1..Len(artists)} :
                     LET albums_of == [a \in ArtistIds |->
                                         IF a \in failed THEN <<>> ELSE remote_albums[a]]
                         incomplete == incomplete_albums(artists, albums_of, OrEmpty(processed_in),
                                                         MONITORED_ONLY)
                     IN  /\ m_cmds' = <<Cmd("GetArtists", 0, -1, Listing(got))>>
                                       \o AlbumQueries(artists, failed, MONITORED_ONLY)
                         /\ m_candidates' = incomplete
                         /\ IF incomplete = <<>>
                            THEN /\ m_waits' = IF OrEmpty(processed_in) = <<>>
                                               THEN <<"sleep(60)">> ELSE <<>>
                                 /\ ModReturn(OrEmpty(processed_in))
                            ELSE /\ m_waits' = <<>>
                                 /\ m_pc' = "album_loop"
                                 /\ UNCHANGED m_ret
    /\ Replays(m_cmds')
    /\ UNCHANGED mainvars

\* The two break conditions at the top of the while loop, then the return.
ModAlbumReturn ==
    /\ m_pc = "album_loop"
    /\ \/ LoopExit(m_processed_count, HUNT_MISSING_ITEMS, m_used_indices, Len(m_candidates))
       \/ NoIndexLeft(Len(m_candidates), m_used_indices, RANDOM_SELECTION)
    /\ ModReturn(OrEmpty(processed_in) \o m_newly_processed)
    /\ UNCHANGED <<mainvars, m_candidates, m_processed_count, m_used_indices,
                   m_newly_processed, m_cmds, m_waits>>

\* One iteration: select, RefreshArtist, AlbumSearch, time.sleep(SLEEP_DURATION).
\* A failed RefreshArtist goes back to the top of the loop.
ModAlbumIter ==
    /\ m_pc = "album_loop"
    /\ ~LoopExit(m_processed_count, HUNT_MISSING_ITEMS, m_used_indices, Len(m_candidates))
    /\ \E idx \in NextIndices(Len(m_candidates), m_used_indices, RANDOM_SELECTION) :
       \E refresh_resp \in Responses, search_resp \in Responses :
        LET album_obj == m_candidates[idx + 1]
            refresh == Cmd("RefreshArtist", album_obj.artistId, idx, refresh_resp)
            search == Cmd("AlbumSearch", album_obj.albumId, idx, search_resp)
        IN  /\ m_used_indices' = m_used_indices \cup {idx}
            /\ IF ~Accepted(refresh_resp)
               THEN /\ m_cmds' = m_cmds \o <<refresh>>
                    /\ m_waits' = Append(m_waits, "sleep(10)")
                    /\ UNCHANGED <<m_processed_count, m_newly_processed, m_pc>>
               ELSE /\ m_cmds' = m_cmds \o <<refresh, search>>
                    /\ m_newly_processed' =
                         IF Accepted(search_resp)
                         THEN Append(m_newly_processed, album_obj.albumId)
                         ELSE m_newly_processed
                    /\ m_processed_count' = m_processed_count + 1
                    /\ m_waits' = m_waits \o <<"sleep(5)", "sleep(SLEEP_DURATION)">>
                    /\ ModSleep
    /\ Replays(m_cmds')
    /\ UNCHANGED <<mainvars, m_candidates, m_ret>>

\* upgrade/album.py: `processed_count += 1` under an accepted AlbumSearch only
ModUpgradeCount(count, srch_resp) == IF Accepted(srch_resp) THEN count + 1 ELSE count

\* upgrade/album.py, process_album_upgrades. Entry: the budget check, GET
\* wanted/cutoff, the candidate list.
ModUpgradeStart ==
    /\ pc = "done"
    /\ pass = "upgrade"
    /\ m_pc = "idle"
    /\ ModFreshLocals
    /\ m_waits' = <<>>
    /\ IF BudgetSkips(HUNT_UPGRADE_ALBUMS)
       THEN /\ m_cmds' = <<>>
            /\ m_candidates' = <<>>
            /\ ModReturn(<<FALSE>>)
       ELSE \E got \in BOOLEAN :
            LET cutoff_albums == IF got THEN remote_cutoff ELSE <<>>
                cands == upgrade_candidates(cutoff_albums, MONITORED_ONLY)
            IN  /\ m_cmds' = <<Cmd("GetCutoff", 0, -1, Listing(got))>>
                /\ m_candidates' = cands
                /\ IF cands = <<>>
                   THEN ModReturn(<<FALSE>>)
                   ELSE /\ m_pc' = "upgrade_loop"
                        /\ UNCHANGED m_ret
    /\ Replays(m_cmds')
    /\ UNCHANGED mainvars

ModUpgradeReturn ==
    /\ m_pc = "upgrade_loop"
    /\ \/ LoopExit(m_processed_count, HUNT_UPGRADE_ALBUMS, m_used_indices, Len(m_candidates))
       \/ NoIndexLeft(Len(m_candidates), m_used_indices, RANDOM_SELECTION)
    /\ ModReturn(<<m_processed_count > 0>>)
    /\ UNCHANGED <<mainvars, m_candidates, m_processed_count, m_used_indices,
                   m_newly_processed, m_cmds, m_waits>>

\* One iteration: select, RefreshArtist, AlbumSearch, and after an accepted
\* AlbumSearch time.sleep(SLEEP_DURATION).
ModUpgradeIter ==
    /\ m_pc = "upgrade_loop"
    /\ ~LoopExit(m_processed_count, HUNT_UPGRADE_ALBUMS, m_used_indices, Len(m_candidates))
    /\ \E idx \in NextIndices(Len(m_candidates), m_used_indices, RANDOM_SELECTION) :
       \E ref_resp \in Responses, srch_resp \in Responses :
        LET album_obj == m_candidates[idx + 1]
            refresh == Cmd("RefreshArtist", album_obj.artistId, idx, ref_resp)
            search == Cmd("AlbumSearch", album_obj.albumId, idx, srch_resp)
        IN  /\ m_used_indices' = m_used_indices \cup {idx}
            /\ IF ~Accepted(ref_resp)
               THEN /\ m_cmds' = m_cmds \o <<refresh>>
                    /\ m_waits' = Append(m_waits, "sleep(10)")
                    /\ UNCHANGED <<m_processed_count, m_pc>>
               ELSE /\ m_cmds' = m_cmds \o <<refresh, search>>
                    /\ m_processed_count' = ModUpgradeCount(m_processed_count, srch_resp)
                    /\ IF Accepted(srch_resp)
                       THEN /\ m_waits' = m_waits \o <<"sleep(5)", "sleep(SLEEP_DURATION)">>
                            /\ ModSleep
                       ELSE /\ m_waits' = m_waits \o <<"sleep(5)", "sleep(10)">>
                            /\ UNCHANGED m_pc
    /\ Replays(m_cmds')
    /\ UNCHANGED <<mainvars, m_candidates, m_newly_processed, m_ret>>

InitPair == InitPass /\ pc \in {"album_pass", "upgrade_pass"}

NextPair ==
    \/ AlbumStart \/ AlbumIter \/ AlbumReturn
    \/ UpgradeStart \/ UpgradeIter \/ UpgradeReturn
    \/ ModAlbumStart \/ ModAlbumIter \/ ModAlbumReturn
    \/ ModUpgradeStart \/ ModUpgradeIter \/ ModUpgradeReturn

SpecPair == InitPair /\ [][NextPair]_vars

----------------------------------------------------------------------------
\* main_loop, from process start, against one catalogue of the remote service.

\* every artist and every album lacks a track; number 2 is not monitored
CatalogueFlags(id) == [monitored |-> id # 2, trackCount |-> 2, trackFileCount |-> 1]

CatalogueArtists == [i \in {1, 2} |-> Entity(i, CatalogueFlags(i))]

\* both albums are of artist 1
CatalogueAlbums ==
    [a \in ArtistIds |->
        IF a = 1 THEN [i \in {1, 2} |-> Entity(i, CatalogueFlags(i))] ELSE <<>>]

CatalogueCutoff ==
    [i \in {1, 2} |-> [id |-> i, monitored |-> i # 2,
                       artist |-> [id |-> 1, monitored |-> TRUE]]]

\* state.json as the process finds it: absent, not JSON, a JSON str, or a
\* JSON object with or without a last_reset_time, which may be no timestamp,
\* a timestamp in another ISO spelling than isoformat() writes, one with a
\* UTC offset, or no str; a processed list of the object may be absent, null,
\* a JSON object, or a number, bool or str. A file that holds a JSON number,
\* bool or null fails the `in` test of load_state as JsonText(FALSE) fails
\* its assignment.
InitialFiles ==
    {[kind |-> "missing"], [kind |-> "not_json"]}
    \cup {[kind |-> "json", value |-> v] :
            v \in {[processed_artists |-> <<1>>, processed_albums |-> <<1>>,
                    last_reset_time |-> isoformat(StartTime)],
                   [processed_artists |-> <<1>>, processed_albums |-> <<1>>,
                    last_reset_time |-> Str(<<>>)],
                   [processed_artists |-> <<1>>, processed_albums |-> <<1>>,
                    last_reset_time |-> StrAs(<<0>>, "iso")],
                   [processed_artists |-> <<1>>, processed_albums |-> <<1>>,
                    last_reset_time |-> StrAs(<<0>>, "offset")],
                   [processed_artists |-> <<1>>, processed_albums |-> <<1>>,
                    last_reset_time |-> NotStr],
                   [processed_artists |-> JsonScalar, processed_albums |-> <<1>>,
                    last_reset_time |-> isoformat(StartTime)],
                   [processed_artists |-> <<1>>, processed_albums |-> JsonScalar,
                    last_reset_time |-> isoformat(StartTime)],
                   [processed_artists |-> None, processed_albums |-> <<1>>,
                    last_reset_time |-> isoformat(StartTime)],
                   [processed_artists |-> <<1>>, processed_albums |-> None,
                    last_reset_time |-> isoformat(StartTime)],
                   [processed_artists |-> JsonObject, processed_albums |-> <<1>>,
                    last_reset_time |-> isoformat(StartTime)],
                   [processed_artists |-> <<1>>, processed_albums |-> JsonObject,
                    last_reset_time |-> isoformat(StartTime)],
                   [last_reset_time |-> isoformat(StartTime)],
                   [processed_artists |-> <<1>>, processed_albums |-> <<1>>],
                   JsonText(TRUE), JsonText(FALSE)}}

ModeValues == {"artist", "album", "both", "none"}

Init ==
    /\ driver = "main_loop"
    /\ pc = "load"
    /\ HUNT_MISSING_ITEMS \in 0..MaxBudget
    /\ HUNT_UPGRADE_ALBUMS \in 0..MaxBudget
    /\ RANDOM_SELECTION \in BOOLEAN
    /\ MONITORED_ONLY \in BOOLEAN
    /\ HUNT_MISSING_MODE \in ModeValues
    /\ STATE_RESET_INTERVAL_HOURS \in {0, 1}
    /\ SLEEP_DURATION \in SleepDurations
    /\ HUNT_UPGRADE_ALBUMS > 0 =>
         HUNT_MISSING_MODE = "none" \/ (HUNT_MISSING_ITEMS = 1 /\ ~RANDOM_SELECTION)
    /\ remote_artists = CatalogueArtists
    /\ remote_albums = CatalogueAlbums
    /\ remote_cutoff = CatalogueCutoff
    /\ now = StartTime
    /\ file \in InitialFiles
    /\ state = FreshState(StartTime)
    /\ processed_in = <<>>
    /\ cycle = 0
    /\ IdleLocals

\* every step of main_loop moves its position: a statement is left, or an
\* iteration of a pass has used one more index
position == <<pc, cycle, used_indices>>

Next ==
    \/ Load \/ CheckReset
    \/ CallArtist \/ ArtistStart \/ ArtistIter \/ ArtistReturn
    \/ CallAlbum \/ AlbumStart \/ AlbumIter \/ AlbumReturn
    \/ CallUpgrade \/ UpgradeStart \/ UpgradeIter \/ UpgradeReturn
    \/ Save \/ Sleep

Spec == Init /\ [][Next]_vars

\* The process is terminated from outside (a signal, Ctrl-C) wherever main_loop
\* is: between two statements of main_loop, or inside load_state,
\* check_reset_state, a pass or save_state. What the process holds then, and
\* what is on disk:
Here ==
    [state |-> state, file |-> file, pass |-> pass, processed_in |-> processed_in,
     candidates |-> candidates,
     processed_count |-> processed_count, used_indices |-> used_indices,
     newly_processed |-> newly_processed, ret |-> ret, cmds |-> cmds, waits |-> waits,
     upgraded |-> upgraded]

\* inside check_reset_state when the interval has passed: after
\* `state["processed_artists"] = []`, and after `state["processed_albums"] = []`
ResetCuts ==
    LET result == check_reset_state(state, now, STATE_RESET_INTERVAL_HOURS)
        first == SetKey(state, "processed_artists", <<>>)
        second == SetKey(first, "processed_albums", <<>>)
    IN  IF result # TypeError /\ result # state
        THEN {[Here EXCEPT !.state = first], [Here EXCEPT !.state = second]}
        ELSE {}

\* inside a missing pass after its first statement, which takes [] for None
Entered(name) == [Here EXCEPT !.pass = name, !.processed_in = OrEmpty(@)]

\* inside process_artists_missing before its loop: GET artist is sent, and
\* time.sleep(60) when no artist came back
ArtistEntryCuts ==
    IF BudgetSkips(HUNT_MISSING_ITEMS) THEN {Entered("artist")}
    ELSE LET entered == Entered("artist")
             sent(got) == [entered EXCEPT !.cmds = <<Cmd("GetArtists", 0, -1, Listing(got))>>]
         IN  {entered} \cup {sent(got) : got \in BOOLEAN}
             \cup {[sent(got) EXCEPT !.waits = <<"sleep(60)">>] :
                     got \in {g \in BOOLEAN : ~g \/ remote_artists = <<>>}}

\* inside process_albums_missing before its loop: GET artist is sent, then
\* GET album artist by artist, incomplete_albums growing album by album with
\* the answers: the albums of the artists before artist n, and the first k
\* albums of artist n. With a number, bool or str for the processed list the
\* pass does not get past the first album.
AlbumEntryCuts ==
    IF BudgetSkips(HUNT_MISSING_ITEMS) THEN {Entered("album")}
    ELSE LET entered == Entered("album")
             get(got) == <<Cmd("GetArtists", 0, -1, Listing(got))>>
             albums_of(failed) == [a \in ArtistIds |->
                                     IF a \in failed THEN <<>> ELSE remote_albums[a]]
             first(n) == SubSeq(remote_artists, 1, n)
             gone_through(n, k, failed) ==
                 incomplete_albums(first(n - 1), albums_of(failed), entered.processed_in,
                                   MONITORED_ONLY)
                 \o (IF QueriedArtist(remote_artists[n], MONITORED_ONLY)
                     THEN AlbumsOfArtist(remote_artists[n],
                                         SubSeq(albums_of(failed)[remote_artists[n].id], 1, k),
                                         entered.processed_in, MONITORED_ONLY)
                     ELSE <<>>)
         IN  {entered} \cup {[entered EXCEPT !.cmds = get(got)] : got \in BOOLEAN}
             \cup {[entered EXCEPT
                      !.cmds = get(TRUE) \o AlbumQueries(first(c[1]), c[3], MONITORED_ONLY),
                      !.candidates = gone_through(c[1], c[2], c[3])] :
                     c \in {<<n, k, failed>> \in
                              (1..Len(remote_artists)) \X (0..MaxAlbums)
                                \X SUBSET {remote_artists[i].id : i \in 1..Len(remote_artists)} :
                              /\ k <= Len(albums_of(failed)[remote_artists[n].id])
                              /\ processed_in = JsonScalar =>
                                   /\ k = 0
                                   /\ WithAlbums(first(n - 1), albums_of(failed),
                                                 MONITORED_ONLY) = {}}}

\* inside process_album_upgrades before its loop: GET wanted/cutoff is sent,
\* then upgrade_candidates grows album by album
UpgradeEntryCuts ==
    IF BudgetSkips(HUNT_UPGRADE_ALBUMS) THEN {}
    ELSE LET entered == [Here EXCEPT !.pass = "upgrade"]
             sent(got) == [entered EXCEPT !.cmds = <<Cmd("GetCutoff", 0, -1, Listing(got))>>]
         IN  {sent(got) : got \in BOOLEAN}
             \cup {[sent(TRUE) EXCEPT
                      !.candidates = upgrade_candidates(SubSeq(remote_cutoff, 1, n),
                                                        MONITORED_ONLY)] :
                     n \in 1..Len(remote_cutoff)}

\* inside an iteration of a loop, in the order of its statements:
\* used_indices.add(idx); RefreshArtist is sent; time.sleep(5) or
\* time.sleep(10); the search is sent
IterCuts(idx, refresh, search) ==
    LET selected == [Here EXCEPT !.used_indices = @ \cup {idx}]
        refreshed == [selected EXCEPT !.cmds = Append(@, refresh)]
        waited == [refreshed EXCEPT
                     !.waits = Append(@, IF Accepted(refresh.resp) THEN "sleep(5)"
                                         ELSE "sleep(10)")]
        searched == [waited EXCEPT !.cmds = Append(@, search)]
    IN  <<selected, refreshed, waited, searched>>

\* inside an iteration of process_artists_missing; after the search,
\* newly_processed.append(artist_id), or the fallback search and then the
\* append; `processed_count += 1` ends the iteration
ArtistIterCuts ==
    IF LoopExit(processed_count, HUNT_MISSING_ITEMS, used_indices, Len(candidates)) THEN {}
    ELSE UNION {
           LET artist_id == candidates[idx + 1].artistId
               cuts == IterCuts(idx, Cmd("RefreshArtist", artist_id, idx, refresh_resp),
                                Cmd("MissingAlbumSearch", artist_id, idx, search_resp))
               fellback == [cuts[4] EXCEPT
                              !.cmds = Append(@, Cmd("AlbumSearchByArtist", artist_id, idx,
                                                     fallback_resp))]
               appended(at) == [at EXCEPT !.newly_processed = Append(@, artist_id)]
           IN  {cuts[1], cuts[2], cuts[3]}
               \cup (IF ~Accepted(refresh_resp) THEN {}
                     ELSE IF Accepted(search_resp) THEN {cuts[4], appended(cuts[4])}
                     ELSE IF Accepted(fallback_resp)
                          THEN {cuts[4], fellback, appended(fellback)}
                          ELSE {cuts[4], fellback}) :
           <<idx, refresh_resp, search_resp, fallback_resp>> \in
             NextIndices(Len(candidates), used_indices, RANDOM_SELECTION)
               \X Responses \X Responses \X Responses}

\* inside an iteration of process_albums_missing; after an accepted search,
\* newly_processed.append(album_id); `processed_count += 1` ends the iteration
AlbumIterCuts ==
    IF LoopExit(processed_count, HUNT_MISSING_ITEMS, used_indices, Len(candidates)) THEN {}
    ELSE UNION {
           LET album_obj == candidates[idx + 1]
               cuts == IterCuts(idx, Cmd("RefreshArtist", album_obj.artistId, idx, refresh_resp),
                                Cmd("AlbumSearch", album_obj.albumId, idx, search_resp))
           IN  {cuts[1], cuts[2], cuts[3]}
               \cup (IF ~Accepted(refresh_resp) THEN {}
                     ELSE IF Accepted(search_resp)
                          THEN {cuts[4], [cuts[4] EXCEPT
                                            !.newly_processed = Append(@, album_obj.albumId)]}
                          ELSE {cuts[4]}) :
           <<idx, refresh_resp, search_resp>> \in
             NextIndices(Len(candidates), used_indices, RANDOM_SELECTION)
               \X Responses \X Responses}

\* inside an iteration of process_album_upgrades; an accepted search has
\* started the upgrade of the album; `processed_count += 1` or time.sleep(10)
\* ends the iteration
UpgradeIterCuts ==
    IF LoopExit(processed_count, HUNT_UPGRADE_ALBUMS, used_indices, Len(candidates)) THEN {}
    ELSE UNION {
           LET album_obj == candidates[idx + 1]
               cuts == IterCuts(idx, Cmd("RefreshArtist", album_obj.artistId, idx, ref_resp),
                                Cmd("AlbumSearch", album_obj.albumId, idx, srch_resp))
           IN  {cuts[1], cuts[2], cuts[3]}
               \cup (IF ~Accepted(ref_resp) THEN {}
                     ELSE IF Accepted(srch_resp)
                          THEN {[cuts[4] EXCEPT
                                   !.upgraded = @ \cup {<<cycle, album_obj.albumId>>}]}
                          ELSE {cuts[4]}) :
           <<idx, ref_resp, srch_resp>> \in
             NextIndices(Len(candidates), used_indices, RANDOM_SELECTION)
               \X Responses \X Responses}

\* inside save_state: `state["last_reset_time"]` is made a str; then
\* open(..., 'w') has truncated the file and json.dump writes into it; then
\* the dump is done. A state that is no dict does not get to open().
SaveCuts ==
    LET serialised == [Here EXCEPT !.state = Serialised(state)]
    IN  IF IsDict(state)
        THEN {serialised,
              [serialised EXCEPT !.file = [kind |-> "not_json"]],
              [serialised EXCEPT !.file = [kind |-> "json", value |-> Serialised(state)]]}
        ELSE {}

\* a missing pass has returned and main_loop has not stored the result yet:
\* between `processed = process_..._missing(...)` and `state[...] = processed`;
\* a pass called with a dict does not return from its loop
ReturnCuts ==
    IF /\ \/ LoopExit(processed_count, HUNT_MISSING_ITEMS, used_indices, Len(candidates))
          \/ NoIndexLeft(Len(candidates), used_indices, RANDOM_SELECTION)
       /\ processed_in # JsonObject
    THEN {[Here EXCEPT !.ret = processed_in \o newly_processed]}
    ELSE {}

Cuts ==
    {Here} \cup
    CASE pc = "reset" -> ResetCuts
      [] pc = "artist_pass" -> ArtistEntryCuts
      [] pc = "artist_loop" -> ArtistIterCuts \cup ReturnCuts
      [] pc = "album_pass" -> AlbumEntryCuts
      [] pc = "album_loop" -> AlbumIterCuts \cup ReturnCuts
      [] pc = "upgrade_pass" -> UpgradeEntryCuts
      [] pc = "upgrade_loop" -> UpgradeIterCuts
      [] pc = "save" -> SaveCuts
      [] OTHER -> {}

Terminate ==
    /\ pc \notin {"terminated", "done", "crashed"}
    /\ pc' = "terminated"
    /\ \E cut \in Cuts :
         /\ state' = cut.state
         /\ file' = cut.file
         /\ pass' = cut.pass
         /\ processed_in' = cut.processed_in
         /\ candidates' = cut.candidates
         /\ processed_count' = cut.processed_count
         /\ used_indices' = cut.used_indices
         /\ newly_processed' = cut.newly_processed
         /\ ret' = cut.ret
         /\ cmds' = cut.cmds
         /\ waits' = cut.waits
         /\ upgraded' = cut.upgraded
    /\ UNCHANGED <<modvars, cfgvars, remotevars, now, driver, cycle, saved>>

NextKill == Next \/ Terminate

SpecKill == Init /\ [][NextKill]_vars

\* main_loop run on: the process is never stopped, so a step that can be
\* taken is taken
SpecRun == Init /\ [][Next]_vars /\ WF_position(Next)

\* One call of one pass that is not held up: a step that is possible is taken,
\* and random.randint does not avoid the unused indices for ever.
SpecPassRun == InitPass /\ [][NextPass]_vars /\ WF_position(NextPass)

----------------------------------------------------------------------------
\* main_loop with the missing passes only (HUNT_UPGRADE_ALBUMS = 0), against
\* every catalogue of the remote service and every answer it may give, lists
\* that repeat an id included.

CheckpointFiles ==
    {[kind |-> "missing"],
     [kind |-> "json",
      value |-> [processed_artists |-> <<1>>, processed_albums |-> <<1>>,
                 last_reset_time |-> isoformat(StartTime)]]}

InitMissing ==
    /\ driver = "main_loop"
    /\ pc = "load"
    /\ HUNT_MISSING_ITEMS \in 1..MaxBudget
    /\ HUNT_UPGRADE_ALBUMS = 0
    /\ RANDOM_SELECTION \in BOOLEAN
    /\ MONITORED_ONLY \in BOOLEAN
    /\ STATE_RESET_INTERVAL_HOURS \in {0, 1}
    /\ SLEEP_DURATION \in SleepDurations
    /\ remote_artists \in ArtistLists \cup RepeatArtistLists
    /\ \/ /\ HUNT_MISSING_MODE = "artist"
          /\ remote_albums = [a \in ArtistIds |-> <<>>]
       \/ /\ HUNT_MISSING_MODE = "album"
          /\ remote_artists \in ArtistLists
          /\ \A i \in 1..Len(remote_artists) : remote_artists[i].trackCount = 1
          /\ remote_albums \in AlbumMaps \cup RepeatAlbumMaps
    /\ remote_cutoff = <<>>
    /\ now = StartTime
    /\ file \in CheckpointFiles
    /\ state = FreshState(StartTime)
    /\ processed_in = <<>>
    /\ cycle = 0
    /\ IdleLocals

NextMissing ==
    \/ Load \/ CheckReset
    \/ CallArtist \/ ArtistStart \/ ArtistIter \/ ArtistReturn
    \/ CallAlbum \/ AlbumStart \/ AlbumIter \/ AlbumReturn
    \/ CallUpgrade \/ UpgradeStart
    \/ Save \/ Sleep

SpecMissing == InitMissing /\ [][NextMissing]_vars

----------------------------------------------------------------------------
\* main_loop in artist mode, run on: the process is never stopped, so a step
\* that can be taken is taken.

InitProgress ==
    /\ driver = "main_loop"
    /\ pc = "load"
    /\ HUNT_MISSING_ITEMS \in 1..MaxBudget
    /\ HUNT_UPGRADE_ALBUMS = 0
    /\ RANDOM_SELECTION \in BOOLEAN
    /\ MONITORED_ONLY \in BOOLEAN
    /\ HUNT_MISSING_MODE = "artist"
    /\ STATE_RESET_INTERVAL_HOURS \in {0, 1}
    /\ SLEEP_DURATION \in SleepDurations
    /\ remote_artists \in ArtistLists
    /\ remote_albums = [a \in ArtistIds |-> <<>>]
    /\ remote_cutoff = <<>>
    /\ now = StartTime
    /\ file \in CheckpointFiles
    /\ state = FreshState(StartTime)
    /\ processed_in = <<>>
    /\ cycle = 0
    /\ IdleLocals

NextProgress ==
    \/ Load \/ CheckReset
    \/ CallArtist \/ ArtistStart \/ ArtistIter \/ ArtistReturn
    \/ CallAlbum \/ CallUpgrade \/ UpgradeStart
    \/ Save \/ Sleep

SpecProgress == InitProgress /\ [][NextProgress]_vars /\ WF_position(NextProgress)

----------------------------------------------------------------------------
\* The checkpoint store inside main_loop: from the save of one cycle to the
\* reset check of the next, for every checkpoint, clock and interval.

StoreSeconds == {0, 3600}
StoreMicros == {0, 500000}

\* last_reset_time in memory: a datetime (after a reset), the str of a
\* timestamp with or without its fraction, in each spelling, or a str that
\* is no timestamp
StoreStamps ==
    {DateTime(sec, usec) : sec \in StoreSeconds, usec \in StoreMicros}
    \cup {StrAs(<<sec>>, form) : sec \in StoreSeconds, form \in {"isoformat", "iso", "offset"}}
    \cup {Str(<<sec, usec>>) : sec \in StoreSeconds, usec \in StoreMicros}
    \cup {Str(<<>>), NotStr}

StoreStates ==
    {[processed_artists |-> pa, processed_albums |-> pl, last_reset_time |-> lrt] :
       pa \in {<<>>, <<2, 1>>}, pl \in {<<>>, <<1>>}, lrt \in StoreStamps}

InitStore ==
    /\ driver = "main_loop"
    /\ pc = "save"
    /\ HUNT_MISSING_ITEMS = 0
    /\ HUNT_UPGRADE_ALBUMS = 0
    /\ RANDOM_SELECTION = FALSE
    /\ MONITORED_ONLY = TRUE
    /\ HUNT_MISSING_MODE = "artist"
    /\ STATE_RESET_INTERVAL_HOURS \in (-1)..2
    /\ SLEEP_DURATION \in SleepDurations
    /\ NoRemote
    /\ now \in {DateTime(3600, 0), DateTime(3600, 250000)}
    /\ file \in {[kind |-> "missing"], [kind |-> "not_json"]}
    /\ state \in StoreStates
    /\ processed_in = <<>>
    /\ cycle = 0
    /\ IdleLocals

NextStore == Save \/ Sleep \/ Load \/ CheckReset

SpecStore == InitStore /\ [][NextStore]_vars

----------------------------------------------------------------------------
\* Properties of the passes.

\* the response carries an identifier
CarriesId(resp) == resp = "id"

MissingPass == pass \in {"artist", "album"}

\* the id a missing pass records for candidate i (from 1)
CandId(i) == IF pass = "artist" THEN candidates[i].artistId ELSE candidates[i].albumId

Refreshes == {k \in 1..Len(cmds) : cmds[k].name = "RefreshArtist"}

Searches ==
    {k \in 1..Len(cmds) :
       cmds[k].name \in {"MissingAlbumSearch", "AlbumSearchByArtist", "AlbumSearch"}}

RefreshAccepted(idx) == \E k \in Refreshes : cmds[k].idx = idx /\ CarriesId(cmds[k].resp)

SearchAccepted(idx) == \E k \in Searches : cmds[k].idx = idx /\ CarriesId(cmds[k].resp)

Recorded(id) == \E j \in 1..Len(newly_processed) : newly_processed[j] = id

BudgetOf(p) == IF p = "upgrade" THEN HUNT_UPGRADE_ALBUMS ELSE HUNT_MISSING_ITEMS

AtLeastZero(n) == IF n < 0 THEN 0 ELSE n

\* C1: the candidate list of a missing pass (artist ids in the artist pass,
\* album ids in the album pass) holds no id of the processed list handed in.
ThmC1 ==
    MissingPass =>
      \A i \in 1..Len(candidates) :
        \A j \in 1..Len(processed_in) : processed_in[j] # CandId(i)

\* an artist pass with candidates, over a remote list that also holds an
\* incomplete artist of the processed list
WitC1 ==
    /\ pass = "artist"
    /\ candidates # <<>>
    /\ \E i \in 1..Len(remote_artists) :
         /\ remote_artists[i].trackCount > remote_artists[i].trackFileCount
         /\ remote_artists[i].monitored
         /\ \E j \in 1..Len(processed_in) : processed_in[j] = remote_artists[i].id

\* C2: a missing pass records an id only for a candidate whose refresh was
\* accepted and for which a later search of the same iteration was accepted;
\* a candidate whose refresh or searches failed is not recorded; the pass
\* returns its argument followed by the recorded ids.
ThmC2 ==
    MissingPass =>
      /\ \A j \in 1..Len(newly_processed) :
           \E r \in Refreshes : \E q \in Searches :
             /\ r < q
             /\ cmds[q].idx = cmds[r].idx
             /\ CarriesId(cmds[r].resp)
             /\ CarriesId(cmds[q].resp)
             /\ CandId(cmds[r].idx + 1) = newly_processed[j]
      /\ \A idx \in used_indices :
           ~(RefreshAccepted(idx) /\ SearchAccepted(idx)) => ~Recorded(CandId(idx + 1))
      /\ pc = "done" => ret = processed_in \o newly_processed

\* a returned artist pass that recorded one candidate and skipped another
WitC2 ==
    /\ pass = "artist"
    /\ pc = "done"
    /\ newly_processed # <<>>
    /\ \E idx \in used_indices :
         /\ ~(RefreshAccepted(idx) /\ SearchAccepted(idx))
         /\ ~Recorded(CandId(idx + 1))

\* C3: a candidate whose refresh failed gets no search command and is not
\* recorded, and a pass returns right after a failed refresh only when no
\* unused candidate remains; otherwise its next iteration is enabled.
ThmC3 ==
    pass # "none" =>
      /\ \A k \in Refreshes :
           ~CarriesId(cmds[k].resp) =>
             /\ \A q \in Searches : cmds[q].idx # cmds[k].idx
             /\ MissingPass => ~Recorded(CandId(cmds[k].idx + 1))
      /\ (/\ cmds # <<>>
          /\ cmds[Len(cmds)].name = "RefreshArtist"
          /\ ~CarriesId(cmds[Len(cmds)].resp)
          /\ Cardinality(used_indices) < Len(candidates))
         => /\ pc # "done"
            /\ ENABLED (ArtistIter \/ AlbumIter \/ UpgradeIter)
            /\ ~ENABLED (ArtistReturn \/ AlbumReturn \/ UpgradeReturn)

\* after a failed refresh the pass refreshed another candidate
WitC3 ==
    /\ pass # "none"
    /\ \E k \in Refreshes : \E l \in Refreshes :
         /\ k < l
         /\ ~CarriesId(cmds[k].resp)
         /\ cmds[l].idx # cmds[k].idx

\* C4 as claimed: the number of refresh commands of a pass is at most its
\* budget.
CexC4 ==
    pass # "none" => Cardinality(Refreshes) <= AtLeastZero(BudgetOf(pass))

\* C4 as amended: the candidates that count against the budget are at most
\* the budget: those whose refresh was accepted in a missing pass, those
\* whose AlbumSearch was accepted in the upgrade pass; the refresh commands
\* are bounded by the length of the candidate list.
ThmC4 ==
    /\ MissingPass =>
         Cardinality({k \in Refreshes : CarriesId(cmds[k].resp)})
           <= AtLeastZero(HUNT_MISSING_ITEMS)
    /\ pass = "upgrade" =>
         Cardinality({k \in Searches : CarriesId(cmds[k].resp)})
           <= AtLeastZero(HUNT_UPGRADE_ALBUMS)
    /\ pass # "none" => Cardinality(Refreshes) <= Len(candidates)

\* a returned pass with budget 1 that issued two refresh commands
WitC4 ==
    /\ pass # "none"
    /\ pc = "done"
    /\ BudgetOf(pass) = 1
    /\ Cardinality(Refreshes) = 2
    /\ Cardinality({k \in Refreshes : CarriesId(cmds[k].resp)}) = 1

\* C5: no index is selected twice in a pass: the indices of the refresh
\* commands (one per iteration) are pairwise distinct, they are exactly
\* used_indices, and used_indices has grown by one per iteration.
ThmC5 ==
    pass # "none" =>
      /\ \A k \in Refreshes : \A l \in Refreshes : cmds[k].idx = cmds[l].idx => k = l
      /\ used_indices = {cmds[k].idx : k \in Refreshes}
      /\ Cardinality(used_indices) = Cardinality(Refreshes)
      /\ used_indices \subseteq 0..(Len(candidates) - 1)

\* random mode, two candidates selected, the first one not the head of the list
WitC5 ==
    /\ pass # "none"
    /\ RANDOM_SELECTION
    /\ Cardinality(used_indices) >= 2
    /\ \E k \in Refreshes : k = Min(Refreshes) /\ cmds[k].idx # 0

\* the artists of the remote list an artist pass has to act on
Eligible ==
    {i \in 1..Len(remote_artists) :
       /\ remote_artists[i].trackCount > remote_artists[i].trackFileCount
       /\ MONITORED_ONLY => remote_artists[i].monitored
       /\ \A j \in 1..Len(processed_in) : processed_in[j] # remote_artists[i].id}

AllAccepted == \A k \in 1..Len(cmds) : cmds[k].resp \in {"id", "list"}

\* C6: with every call answered and every command accepted, an artist pass
\* with budget B >= 0 over N eligible artists returns its argument followed
\* by min(B, N) ids, each the id of a different eligible artist.
ThmC6 ==
    (pass = "artist" /\ pc = "done" /\ HUNT_MISSING_ITEMS >= 0 /\ AllAccepted) =>
      /\ Len(ret) = Len(processed_in) + MinOf(HUNT_MISSING_ITEMS, Cardinality(Eligible))
      /\ \A j \in 1..Len(ret) :
           IF j <= Len(processed_in) THEN ret[j] = processed_in[j]
           ELSE /\ \E i \in Eligible : remote_artists[i].id = ret[j]
                /\ \A l \in 1..Len(ret) : ret[l] = ret[j] => l = j

\* budget 1, two eligible artists among the remote ones, one id added
WitC6 ==
    /\ pass = "artist"
    /\ pc = "done"
    /\ AllAccepted
    /\ HUNT_MISSING_ITEMS = 1
    /\ Cardinality(Eligible) = 2
    /\ processed_in = <<>>
    /\ Len(ret) = 1

\* C7: a pass whose budget is zero or negative issues no remote call and
\* returns at once: a missing pass its argument, the upgrade pass False.
ThmC7 ==
    /\ (MissingPass /\ HUNT_MISSING_ITEMS <= 0) =>
         cmds = <<>> /\ pc = "done" /\ ret = processed_in
    /\ (pass = "upgrade" /\ HUNT_UPGRADE_ALBUMS <= 0) =>
         cmds = <<>> /\ pc = "done" /\ ret = <<FALSE>>

\* an album pass with budget 0, a processed list and albums to search for
WitC7 ==
    /\ pass = "album"
    /\ HUNT_MISSING_ITEMS = 0
    /\ pc = "done"
    /\ processed_in # <<>>
    /\ \E i \in 1..Len(remote_artists) :
         /\ remote_artists[i].monitored
         /\ \E j \in 1..Len(remote_albums[remote_artists[i].id]) :
              LET alb == remote_albums[remote_artists[i].id][j]
              IN  alb.monitored /\ alb.trackCount > alb.trackFileCount

----------------------------------------------------------------------------
\* Properties of the checkpoint store.

\* a last_reset_time that denotes an instant: a datetime, or the str of one
DenotesInstant(v) ==
    \/ v.type = "datetime"
    \/ v.type = "str" /\ Len(v.text) \in {1, 2}

\* the instant, as <<seconds, microseconds>>
InstantOf(v) ==
    IF v.type = "datetime" THEN <<v.sec, v.usec>>
    ELSE IF Len(v.text) = 1 THEN <<v.text[1], 0>>
    ELSE <<v.text[1], v.text[2]>>

\* instant t lies more than `hours` hours after instant u
MoreThanHoursAfter(t, u, hours) ==
    \/ t[1] - u[1] > hours * SecondsPerHour
    \/ t[1] - u[1] = hours * SecondsPerHour /\ t[2] > u[2]

\* the reset check cleared the checkpoint at the current time
WasReset(st) ==
    /\ IsDict(st)
    /\ {"processed_artists", "processed_albums"} \subseteq DOMAIN st
    /\ st.processed_artists = <<>>
    /\ st.processed_albums = <<>>
    /\ st.last_reset_time = now

\* C8: check_reset_state changes the checkpoint only when the interval is
\* positive and the time since last_reset_time strictly exceeds it; otherwise
\* it returns the checkpoint as it was.
ThmC8 ==
    [][pc = "reset" =>
         (state' # state =>
            /\ STATE_RESET_INTERVAL_HOURS > 0
            /\ DenotesInstant(state.last_reset_time)
            /\ MoreThanHoursAfter(InstantOf(now), InstantOf(state.last_reset_time),
                                  STATE_RESET_INTERVAL_HOURS))]_vars

\* a reset was made of a checkpoint that held processed ids
WitC8 ==
    /\ pc = "artist_call"
    /\ STATE_RESET_INTERVAL_HOURS > 0
    /\ WasReset(state)
    /\ file.kind = "json"
    /\ file.value.processed_artists # <<>>

\* the instant the interval of the reset check counts from: the one the
\* loaded last_reset_time denotes, and process start when it denotes none
LastReset(st) ==
    IF IsDict(st) /\ DenotesInstant(st.last_reset_time) THEN InstantOf(st.last_reset_time)
    ELSE InstantOf(StartTime)

\* C9 as claimed: with a positive interval, after a reset check that runs
\* more than the interval after the last reset the checkpoint is cleared and
\* stamped with the current time, whatever the file held.
CexC9 ==
    (pc = "artist_call" /\ STATE_RESET_INTERVAL_HOURS > 0) =>
      \/ WasReset(state)
      \/ ~MoreThanHoursAfter(InstantOf(now), LastReset(state), STATE_RESET_INTERVAL_HOURS)

\* C10: after a successful save_state, the load_state of the next cycle gives
\* the processed artist ids and album ids that were saved, and a
\* last_reset_time that denotes the instant the saved one denoted.
ThmC10 ==
    (pc = "reset" /\ saved.written) =>
      /\ state.processed_artists = saved.state.processed_artists
      /\ state.processed_albums = saved.state.processed_albums
      /\ DenotesInstant(saved.state.last_reset_time) =>
           /\ DenotesInstant(state.last_reset_time)
           /\ InstantOf(state.last_reset_time) = InstantOf(saved.state.last_reset_time)

\* a checkpoint with ids and a datetime with microseconds was saved and loaded
WitC10 ==
    /\ pc = "reset"
    /\ saved.written
    /\ saved.state.last_reset_time.type = "datetime"
    /\ saved.state.last_reset_time.usec # 0
    /\ saved.state.processed_artists # <<>>
    /\ state.last_reset_time.type = "str"

----------------------------------------------------------------------------
\* Properties of main_loop.

NoDuplicate(s) == \A i \in 1..Len(s) : \A j \in 1..Len(s) : s[i] = s[j] => i = j

\* C11 as claimed: through the cycles of main_loop, whatever lists the remote
\* service returns, processed_artists and processed_albums hold each id at
\* most once: in the checkpoint in memory, in the list a missing pass returns
\* and in the checkpoint file.
CexC11 ==
    /\ NoDuplicate(state.processed_artists)
    /\ NoDuplicate(state.processed_albums)
    /\ (MissingPass /\ pc \in {"album_call", "upgrade_call"}) => NoDuplicate(ret)
    /\ file.kind = "json" =>
         /\ NoDuplicate(file.value.processed_artists)
         /\ NoDuplicate(file.value.processed_albums)

\* the albums the running pass has selected: one refresh command per selection
SelectedAlbums == {candidates[cmds[k].idx + 1].albumId : k \in Refreshes}

\* C12 as claimed: the upgrade pass selects no album whose upgrade
\* AlbumSearch was accepted in an earlier cycle, unless the checkpoint was
\* reset since.
CexC12 ==
    pass = "upgrade" =>
      \A c \in 0..(cycle - 1) : \A id \in SelectedAlbums : <<c, id>> \notin upgraded

\* the ids of the artists the artist pass has to act on, whatever is processed
EligibleIds ==
    {remote_artists[i].id : i \in {j \in 1..Len(remote_artists) :
       /\ remote_artists[j].trackCount > remote_artists[j].trackFileCount
       /\ MONITORED_ONLY => remote_artists[j].monitored}}

IdsOf(s) == {s[i] : i \in 1..Len(s)}

\* a call was not answered or not accepted, a save failed, the checkpoint
\* was reset, or main_loop has ended and no cycle follows
Disturbed ==
    \/ ~AllAccepted
    \/ pc = "sleep" /\ ~saved.written
    \/ pc = "artist_call" /\ WasReset(state) /\ cycle > 0
    \/ pc = "crashed"

AllProcessed == EligibleIds \subseteq IdsOf(state.processed_artists)

\* an artist pass called with every eligible id processed issues no command
QuietPass ==
    (pass = "artist" /\ EligibleIds \subseteq IdsOf(processed_in)) =>
      (Refreshes = {} /\ Searches = {})

\* C13: in artist mode with a budget >= 1, as long as the cycles repeat, every
\* call is accepted, every save succeeds and no reset falls due, the cycles
\* eventually bring
\* every eligible artist id into processed_artists for good, and an artist
\* pass that starts from there issues no refresh and no search.
ThmC13 == ([]~Disturbed) => (<>[]AllProcessed /\ []QuietPass)

\* budget 1 and two eligible artists: the second cycle has processed the
\* second one
WitC13 ==
    /\ cycle = 1
    /\ pass = "artist"
    /\ pc = "album_call"
    /\ HUNT_MISSING_ITEMS = 1
    /\ Cardinality(EligibleIds) = 2
    /\ Len(processed_in) = 1
    /\ AllProcessed
    /\ AllAccepted

\* the step of the cycle a position of main_loop belongs to
StepOf(p) ==
    CASE p = "load" -> 1
      [] p = "reset" -> 2
      [] p \in {"artist_call", "artist_pass", "artist_loop"} -> 3
      [] p \in {"album_call", "album_pass", "album_loop"} -> 4
      [] p \in {"upgrade_call", "upgrade_pass", "upgrade_loop"} -> 5
      [] p = "save" -> 6
      [] p = "sleep" -> 7
      [] OTHER -> 0

\* one step of main_loop stays in its step of the cycle or moves to the next
\* one; a pass is entered only from its place in main_loop and when the mode
\* asks for it; the file is written by the save step only; the sleep is
\* followed by the load of the next cycle
InOrder ==
    /\ StepOf(pc) # 0 /\ StepOf(pc') # 0
    /\ \/ StepOf(pc') = StepOf(pc)
       \/ StepOf(pc') = StepOf(pc) + 1
       \/ StepOf(pc) = 7 /\ StepOf(pc') = 1 /\ cycle' = cycle + 1
    /\ cycle' # cycle => pc = "sleep"
    /\ (pc' = "artist_pass" /\ pc # "artist_pass") =>
         pc = "artist_call" /\ HUNT_MISSING_MODE \in {"artist", "both"}
    /\ (pc' = "album_pass" /\ pc # "album_pass") =>
         pc = "album_call" /\ HUNT_MISSING_MODE \in {"album", "both"}
    /\ (pc' = "upgrade_pass" /\ pc # "upgrade_pass") => pc = "upgrade_call"
    /\ (pc = "artist_call" /\ HUNT_MISSING_MODE \in {"artist", "both"}) => pc' = "artist_pass"
    /\ (pc = "album_call" /\ HUNT_MISSING_MODE \in {"album", "both"}) => pc' = "album_pass"
    /\ pc = "upgrade_call" => pc' = "upgrade_pass"
    /\ file' # file => pc = "save"
    /\ pc = "save" => pc' = "sleep"

\* main_loop has a next step wherever it is (up to the last cycle of the model)
NeverEnds == (pc = "sleep" => cycle < MaxCycles) => ENABLED Next

\* C14 as claimed: every cycle goes load, reset check, artist pass, album
\* pass, upgrade pass, save, sleep, the missing passes when the mode asks for
\* them; the checkpoint is saved once per cycle, after the passes and before
\* the sleep; the loop never ends: the sleep is followed by the next load.
CexC14 == [][InOrder]_vars /\ []NeverEnds

\* C15: in every pass a search command comes after a RefreshArtist command
\* of the same loop iteration, issued for the artist of the same candidate
\* and accepted, with only searches for that candidate in between; so no
\* search is issued for a candidate whose refresh was not accepted.
ThmC15 ==
    pass # "none" =>
      \A q \in Searches :
        \E r \in Refreshes :
          /\ r < q
          /\ cmds[r].idx = cmds[q].idx
          /\ cmds[r].id = candidates[cmds[q].idx + 1].artistId
          /\ CarriesId(cmds[r].resp)
          /\ \A k \in (r + 1)..(q - 1) : k \in Searches /\ cmds[k].idx = cmds[q].idx

\* an upgrade pass that searched for one album after its refresh and issued
\* no search for the album whose refresh failed
WitC15 ==
    /\ pass = "upgrade"
    /\ pc = "done"
    /\ \E q \in Searches : CarriesId(cmds[q].resp)
    /\ \E r \in Refreshes :
         /\ ~CarriesId(cmds[r].resp)
         /\ \A q \in Searches : cmds[q].idx # cmds[r].idx

\* the file holds a checkpoint of the documented shape: a JSON object with
\* processed_artists, processed_albums and an ISO-8601 last_reset_time
DocumentedShape(f) ==
    /\ f.kind = "json"
    /\ IsDict(f.value)
    /\ {"processed_artists", "processed_albums", "last_reset_time"} \subseteq DOMAIN f.value
    /\ IsList(f.value.processed_artists)
    /\ IsList(f.value.processed_albums)
    /\ f.value.last_reset_time.type = "str"
    /\ DenotesInstant(f.value.last_reset_time)

\* a fresh empty checkpoint of the current time
IsFresh(st) ==
    /\ GetList(st, "processed_artists") = <<>>
    /\ GetList(st, "processed_albums") = <<>>
    /\ "last_reset_time" \in DOMAIN st
    /\ DenotesInstant(st.last_reset_time)
    /\ InstantOf(st.last_reset_time) = InstantOf(now)

\* C16 as claimed: when the file is missing, is not JSON or is not a
\* checkpoint of the documented shape, the passes of the cycle start from a
\* fresh empty checkpoint of the current time.
CexC16 ==
    (pc = "artist_call" /\ ~DocumentedShape(file)) => IsFresh(state)

\* a remote call of the running pass got no response or a response without
\* an id
RemoteFailed == pass # "none" /\ ~AllAccepted

SaveFailed == pc = "sleep" /\ ~saved.written

\* C17 as claimed: whatever the remote calls of a cycle answer, the cycle
\* reaches its save; and after a failed remote call as after a failed save the
\* cycle reaches its sleep and the next cycle begins with its load.
CexC17 ==
    \A c \in 0..(MaxCycles - 1) :
      /\ (cycle = c /\ pc = "load") ~> (cycle = c /\ pc = "save")
      /\ (cycle = c /\ RemoteFailed) ~> (cycle = c /\ pc = "sleep")
      /\ (cycle = c /\ (RemoteFailed \/ SaveFailed)) ~> (cycle = c + 1 /\ pc = "load")

\* C18 as claimed: an integer setting that is no integer takes its default
\* (1, 0, 900, 168), and with a mode other than artist, album or both the
\* cycle runs the artist pass, as with the default mode.
CexC18 ==
    /\ \A raw \in EnvValues :
         raw.kind = "text" =>
           /\ int_env(raw, DefaultMissingItems) = 1
           /\ int_env(raw, DefaultUpgradeAlbums) = 0
           /\ int_env(raw, DefaultSleepDuration) = 900
           /\ int_env(raw, DefaultResetIntervalHours) = 168
    /\ (pc = "album_call" /\ HUNT_MISSING_MODE \notin {"artist", "album", "both"}) =>
         pass = "artist"

\* C19 as claimed: a termination, wherever it comes, leaves the file as it
\* was or holding the complete checkpoint of the save it interrupted.
CexC19 ==
    [][pc' = "terminated" =>
         \/ file' = file
         \/ file' = [kind |-> "json", value |-> Serialised(state)]]_vars

\* the commands of the running pass that name an artist, and an album
ArtistCmds ==
    {k \in 1..Len(cmds) :
       cmds[k].name \in {"RefreshArtist", "MissingAlbumSearch", "AlbumSearchByArtist"}}

AlbumCmds == {k \in 1..Len(cmds) : cmds[k].name = "AlbumSearch"}

\* the remote service has the artist, and the album, as monitored
ArtistMonitored(id) ==
    /\ \A i \in 1..Len(remote_artists) :
         remote_artists[i].id = id => remote_artists[i].monitored
    /\ \A i \in 1..Len(remote_cutoff) :
         remote_cutoff[i].artist.id = id => remote_cutoff[i].artist.monitored

AlbumMonitored(id) ==
    /\ \A a \in ArtistIds : \A i \in 1..Len(remote_albums[a]) :
         remote_albums[a][i].id = id => remote_albums[a][i].monitored
    /\ \A i \in 1..Len(remote_cutoff) :
         remote_cutoff[i].id = id => remote_cutoff[i].monitored

\* C20 as claimed: with MONITORED_ONLY no pass issues a refresh or a search
\* for an artist or an album that is not monitored.
CexC20 ==
    (MONITORED_ONLY /\ pass # "none") =>
      /\ \A k \in ArtistCmds : ArtistMonitored(cmds[k].id)
      /\ \A k \in AlbumCmds : AlbumMonitored(cmds[k].id)

----------------------------------------------------------------------------
\* C21: time.sleep(SLEEP_DURATION) is called at the end of the cycle only: a
\* pass, of main.py, of missing/album.py or of upgrade/album.py, waits the
\* fixed delays of 60, 10 and 5 seconds only, never SLEEP_DURATION.
CexC21 ==
    /\ \A k \in 1..Len(waits) : waits[k] \in {"sleep(60)", "sleep(10)", "sleep(5)"}
    /\ \A k \in 1..Len(m_waits) : m_waits[k] \in {"sleep(60)", "sleep(10)", "sleep(5)"}

\* a step of a pass of missing/album.py or upgrade/album.py
ModStep ==
    \/ ModAlbumStart \/ ModAlbumIter \/ ModAlbumReturn
    \/ ModUpgradeStart \/ ModUpgradeIter \/ ModUpgradeReturn

\* C30 as claimed: a pass of missing/album.py or upgrade/album.py that has
\* returned issued the remote calls of the pass of main.py of the same name,
\* in the same order and with the same answers, and returned the same value;
\* until it has returned it can go on under the answers and choices main.py
\* got.
CexC30 ==
    /\ m_pc = "done" => (m_cmds = cmds /\ m_ret = ret)
    /\ (pc = "done" /\ m_pc # "done") => ENABLED ModStep

\* C22: in every cycle the artist pass has run when main_loop comes to the
\* album pass if and only if the mode is "artist" or "both"; the album pass
\* has run when main_loop comes to the upgrade pass if and only if the mode is
\* "album" or "both"; the upgrade pass has run when main_loop comes to the
\* save, whatever the mode.
ThmC22 ==
    /\ pc = "album_call" => (pass = "artist" <=> HUNT_MISSING_MODE \in {"artist", "both"})
    /\ pc \in {"album_pass", "album_loop"} => HUNT_MISSING_MODE \in {"album", "both"}
    /\ pc = "upgrade_call" => (pass = "album" <=> HUNT_MISSING_MODE \in {"album", "both"})
    /\ pc = "save" => pass = "upgrade"

\* mode "both": the artist pass, then the album pass have stored their lists,
\* and the upgrade pass has returned
WitC22 ==
    /\ pc = "save"
    /\ HUNT_MISSING_MODE = "both"
    /\ pass = "upgrade"
    /\ GetList(state, "processed_artists") # <<>>
    /\ GetList(state, "processed_albums") # <<>>
    /\ file = [kind |-> "missing"]

\* the candidates of the running pass whose refresh was accepted
AcceptedRefreshes == {k \in Refreshes : CarriesId(cmds[k].resp)}

\* C23: in a missing pass every accepted refresh, and no failed one, takes
\* one unit of the budget, whether its search is accepted or not; the units
\* taken never exceed HUNT_MISSING_ITEMS; the ids the pass records are at most
\* the units taken, so the pass returns at most HUNT_MISSING_ITEMS new ids.
ThmC23 ==
    MissingPass =>
      /\ processed_count = Cardinality(AcceptedRefreshes)
      /\ processed_count <= AtLeastZero(HUNT_MISSING_ITEMS)
      /\ Len(newly_processed) <= processed_count
      /\ pc = "done" => Len(ret) <= Len(processed_in) + AtLeastZero(HUNT_MISSING_ITEMS)

\* an album pass with budget 2 returned after two accepted refreshes, one of
\* them followed by a failed AlbumSearch
WitC23 ==
    /\ pass = "album"
    /\ pc = "done"
    /\ HUNT_MISSING_ITEMS = 2
    /\ processed_count = 2
    /\ Len(newly_processed) = 1
    /\ \E k \in Searches : ~CarriesId(cmds[k].resp)

\* the accepted AlbumSearch commands of a log of remote calls
AcceptedSearches(log) ==
    {k \in 1..Len(log) : log[k].name = "AlbumSearch" /\ CarriesId(log[k].resp)}

\* the last remote call of a log was a command that was not accepted
EndsInFailure(log) ==
    /\ log # <<>>
    /\ log[Len(log)].name \in {"RefreshArtist", "AlbumSearch"}
    /\ ~CarriesId(log[Len(log)].resp)

\* C24: in the upgrade pass, of main.py and of upgrade/album.py, the units of
\* budget taken are the accepted AlbumSearch commands, and they are at most
\* HUNT_UPGRADE_ALBUMS; after a failed refresh or a failed search, with an
\* unused candidate left, the pass does not return but selects another
\* candidate; the pass returns True if and only if an AlbumSearch was accepted.
ThmC24 ==
    pass = "upgrade" =>
      /\ processed_count = Cardinality(AcceptedSearches(cmds))
      /\ processed_count <= AtLeastZero(HUNT_UPGRADE_ALBUMS)
      /\ (EndsInFailure(cmds) /\ Cardinality(used_indices) < Len(candidates)) =>
           /\ pc = "upgrade_loop"
           /\ ENABLED UpgradeIter
           /\ ~ENABLED UpgradeReturn
      /\ pc = "done" => ret = <<AcceptedSearches(cmds) # {}>>
      /\ m_processed_count = Cardinality(AcceptedSearches(m_cmds))
      /\ m_processed_count <= AtLeastZero(HUNT_UPGRADE_ALBUMS)
      /\ (EndsInFailure(m_cmds) /\ Cardinality(m_used_indices) < Len(m_candidates)) =>
           /\ m_pc = "upgrade_loop"
           /\ ENABLED ModUpgradeIter
           /\ ~ENABLED ModUpgradeReturn
      /\ m_pc = "done" => m_ret = <<AcceptedSearches(m_cmds) # {}>>

\* both upgrade passes returned True with budget 1 after a failed AlbumSearch
\* of one candidate and an accepted one of the next
WitC24 ==
    /\ pass = "upgrade"
    /\ pc = "done"
    /\ m_pc = "done"
    /\ HUNT_UPGRADE_ALBUMS = 1
    /\ ret = <<TRUE>>
    /\ \E k \in 1..Len(cmds) : cmds[k].name = "AlbumSearch" /\ ~CarriesId(cmds[k].resp)
    /\ Cardinality(AcceptedSearches(m_cmds)) = 1

\* the running pass is at the top of its while loop
AtLoopTop == pc \in {"artist_loop", "album_loop", "upgrade_loop"}

\* C25: every pass returns, whatever the candidate list and the answers of
\* the remote service: its loop runs at most len(candidates) iterations, and
\* at the top of the loop the pass either breaks or has an unused index to
\* select, which the random draw finds in the end.
ThmC25 ==
    /\ [](pass # "none" => Cardinality(Refreshes) <= Len(candidates))
    /\ [](AtLoopTop =>
            \/ ENABLED (ArtistReturn \/ AlbumReturn \/ UpgradeReturn)
            \/ /\ ENABLED (ArtistIter \/ AlbumIter \/ UpgradeIter)
               /\ Cardinality(used_indices) < Len(candidates))
    /\ <>(pc = "done")

\* random mode: a pass returned with budget left after every one of its two
\* candidates had been selected and refused
WitC25 ==
    /\ pc = "done"
    /\ RANDOM_SELECTION
    /\ Len(candidates) = 2
    /\ Cardinality(Refreshes) = 2
    /\ processed_count = 0
    /\ BudgetOf(pass) > 0

\* C26: without random selection, or with one candidate only, a pass selects
\* the candidates in list order: its j-th selection is index j - 1, the lowest
\* unused one, and the candidates it has tried are a prefix of the list.
ThmC26 ==
    (pass # "none" /\ (~RANDOM_SELECTION \/ Len(candidates) = 1)) =>
      /\ \A j \in 1..Len(Selections(cmds)) : Selections(cmds)[j] = j - 1
      /\ used_indices = 0..(Cardinality(used_indices) - 1)
      /\ \A idx \in NextIndices(Len(candidates), used_indices, RANDOM_SELECTION) :
           \A i \in 0..(Len(candidates) - 1) : i \notin used_indices => idx <= i

\* sequential mode: two candidates, both tried, the first one first
WitC26 ==
    /\ pass # "none"
    /\ ~RANDOM_SELECTION
    /\ Len(candidates) = 2
    /\ Selections(cmds) = <<0, 1>>

\* main_loop is between its reset check and its save_state
PastResetCheck ==
    pc \in {"artist_call", "artist_pass", "artist_loop", "album_call", "album_pass",
            "album_loop", "upgrade_call", "upgrade_pass", "upgrade_loop", "save"}

\* the reset check of this cycle cleared the checkpoint: last_reset_time is
\* the datetime it set, not the str that was loaded
ResetThisCycle == IsDict(state) /\ state.last_reset_time.type = "datetime"

\* the ids a checkpoint holds under key: those of its list, and none when it
\* has no list there
ListIds(d, key) == IF IsList(GetList(d, key)) THEN IdsOf(GetList(d, key)) ELSE {}

\* the processed ids load_state gave this cycle; the file is as it was loaded
LoadedIds(key) == IF file.kind = "json" THEN ListIds(file.value, key) ELSE {}

ProcessedKeys == {"processed_artists", "processed_albums"}

\* every id that was loaded is in the checkpoint
KeepsLoaded ==
    (PastResetCheck /\ ~ResetThisCycle) =>
      \A key \in ProcessedKeys : LoadedIds(key) \subseteq ListIds(state, key)

\* a save that succeeds in a cycle without reset leaves in the file every id
\* the file held
SavesGrow ==
    (pc = "save" /\ saved'.written /\ ~ResetThisCycle) =>
      \A key \in ProcessedKeys : LoadedIds(key) \subseteq ListIds(file'.value, key)

\* C27: in a cycle without reset every processed id that was loaded is in the
\* checkpoint at every point up to save_state, and a save that succeeds
\* writes a file that holds every id of the file before: the processed sets
\* on file only grow from cycle to cycle until a reset.
ThmC27 == []KeepsLoaded /\ [][SavesGrow]_vars

\* the second cycle, no reset: the checkpoint to be saved holds the artist id
\* the first cycle saved and one more
WitC27 ==
    /\ pc = "save"
    /\ cycle = 1
    /\ ~ResetThisCycle
    /\ LoadedIds("processed_artists") # {}
    /\ LoadedIds("processed_artists") \subseteq ListIds(state, "processed_artists")
    /\ LoadedIds("processed_artists") # ListIds(state, "processed_artists")

\* the fallback commands issued for the candidate at index idx
Fallbacks(idx) ==
    {q \in 1..Len(cmds) : cmds[q].name = "AlbumSearchByArtist" /\ cmds[q].idx = idx}

\* C28: in the artist pass a MissingAlbumSearch that is not accepted is
\* followed at once by one AlbumSearch by artist for the same artist, the only
\* one of that candidate; an accepted MissingAlbumSearch is followed by none;
\* a fallback is issued in no other place; the artist id is recorded if and
\* only if the MissingAlbumSearch or the fallback was accepted.
ThmC28 ==
    pass = "artist" =>
      /\ \A k \in 1..Len(cmds) :
           cmds[k].name = "MissingAlbumSearch" =>
             IF CarriesId(cmds[k].resp)
             THEN Fallbacks(cmds[k].idx) = {}
             ELSE /\ Fallbacks(cmds[k].idx) = {k + 1}
                  /\ cmds[k + 1].id = cmds[k].id
      /\ \A q \in 1..Len(cmds) :
           cmds[q].name = "AlbumSearchByArtist" =>
             /\ q > 2
             /\ cmds[q - 1].name = "MissingAlbumSearch"
             /\ cmds[q - 1].idx = cmds[q].idx
             /\ ~CarriesId(cmds[q - 1].resp)
             /\ cmds[q - 2].name = "RefreshArtist"
             /\ cmds[q - 2].idx = cmds[q].idx
             /\ CarriesId(cmds[q - 2].resp)
      /\ \A idx \in used_indices :
           Recorded(CandId(idx + 1)) <=>
             \E k \in 1..Len(cmds) :
               /\ cmds[k].name \in {"MissingAlbumSearch", "AlbumSearchByArtist"}
               /\ cmds[k].idx = idx
               /\ CarriesId(cmds[k].resp)

\* one artist recorded through an accepted fallback, another one not recorded
\* after a fallback that failed too
WitC28 ==
    /\ pass = "artist"
    /\ \E q \in 1..Len(cmds) :
         /\ cmds[q].name = "AlbumSearchByArtist"
         /\ CarriesId(cmds[q].resp)
         /\ Recorded(cmds[q].id)
    /\ \E q \in 1..Len(cmds) :
         /\ cmds[q].name = "AlbumSearchByArtist"
         /\ ~CarriesId(cmds[q].resp)
         /\ ~Recorded(cmds[q].id)

\* checkpoint e is checkpoint d but for its entry `key`
SameBut(d, e, key) ==
    /\ DOMAIN e \ {key} = DOMAIN d \ {key}
    /\ \A k \in DOMAIN d \ {key} : e[k] = d[k]

\* a step of a pass leaves the checkpoint alone but for the list of the pass
OwnPartOnly ==
    /\ pc \in {"artist_pass", "artist_loop"} => SameBut(state, state', "processed_artists")
    /\ pc \in {"album_pass", "album_loop"} => SameBut(state, state', "processed_albums")
    /\ pc \in {"upgrade_pass", "upgrade_loop"} => state' = state
    /\ pc \in {"artist_pass", "artist_loop", "album_pass", "album_loop", "upgrade_pass",
               "upgrade_loop"} => file' = file

\* C29: the artist pass changes processed_artists only, the album pass
\* processed_albums only, the upgrade pass nothing of the checkpoint; no pass
\* changes last_reset_time or the checkpoint file.
ThmC29 == [][OwnPartOnly]_vars

\* mode "both", after the three passes: both lists differ from the loaded
\* ones, last_reset_time is the loaded one
WitC29 ==
    /\ pc = "save"
    /\ HUNT_MISSING_MODE = "both"
    /\ file.kind = "json"
    /\ "last_reset_time" \in DOMAIN file.value
    /\ state.last_reset_time = file.value.last_reset_time
    /\ GetList(state, "processed_artists") # GetList(file.value, "processed_artists")
    /\ GetList(state, "processed_albums") # GetList(file.value, "processed_albums")

====
